---- MODULE Spec2Model ----
(***************************************************************************)
(* State-machine model of the CellularShield driver                        *)
(* (src/src/CellularShieldDriver.cpp lines 1-451, declarations in          *)
(* src/unnamed/part_000).                                                  *)
(*                                                                         *)
(* Bytes are one-character strings; the byte of value 255 is B255 and the  *)
(* byte of value 0 is NUL.  `char` is the unsigned 8-bit type of the       *)
(* target (the ResponseType enumerators 254 and 255 need it), so a         *)
(* comparison `c == 255` is true exactly for the byte 255.                 *)
(*                                                                         *)
(* Time is in milliseconds.  The serial stream rx is the FIFO of bytes the *)
(* modem has sent and the driver has not read; each byte carries `due`,    *)
(* the time left until it is available (0 = m_serial.available()).         *)
(* `el` is millis() - start of the running attempt.                        *)
(***************************************************************************)
EXTENDS Integers, Sequences, FiniteSets, TLC

VARIABLES
    m_debug,      \* DebugLevel of the driver, 0..3
    rx,           \* modem -> driver byte stream: Seq([b, due, cur]); cur: sent in
                  \* answer to a transmission of the running call
    wire,         \* command line written and not yet seen by the modem
    el,           \* millis() - start
    pc,           \* position inside m_send_command
    sc,           \* arguments and locals of the running m_send_command
    response,     \* the caller's reply buffer (function 0..cap-1 -> byte)
    err,          \* Error returned by the last m_send_command
    stack,        \* call stack above m_send_command: Seq([fn, pc, n]), top last
    ret,          \* Error returned by the last function that returned
    began,        \* what begin() returned: "none", "true" or "false"
    m_net_config, \* NetworkConfig [apn, mno, pdp]
    power_pin,    \* mode of m_power_pin
    bobs,         \* observer record of the bring-up: verifies and confnets (calls
                  \* of m_verify_network and m_configure_network), firstVerify
                  \* and lastVerify (their results), profile and stat (the values
                  \* the modem reported to the last verification)
    obs           \* observer record: writes (transmissions made by the running
                  \* call), view (the stream as it stood when the modem answered
                  \* the last write), lastEnd (how the last attempt ended), got
                  \* (the running call has read a byte), callNo (calls made),
                  \* said (the value the modem reported in its last answer to the running call),
                  \* fake (the running call took a received byte 255 for the
                  \* reader's timeout value), stale (the running call read a
                  \* byte the modem sent before the call), prev (what the harness noted of
                  \* the call before)

vars == <<m_debug, rx, wire, el, pc, sc, response, err, stack, ret, began,
          m_net_config, power_pin, bobs, obs>>

\* the state m_send_command does not touch
caller == <<stack, ret, began, m_net_config, power_pin, bobs>>

-----------------------------------------------------------------------------
(* Bytes *)
B255 == "<255>"
NUL  == "<0>"
CR   == "\r"
LF   == "\n"
SP   == " "

(* enum class ResponseType : char *)
ResponseType == [DATA |-> "+", OK |-> "O", ERROR |-> "E", TIMEOUT |-> "<254>",
                 UNKNOWN |-> "<255>"]

(* enum class DebugLevel *)
DL_NONE  == 0
DL_ERROR == 1
DL_WARN  == 2
DL_INFO  == 3

(* Program constants *)
LTE_SHIELD_COMMAND_MAX_LEN == 10
LTE_SHIELD_ECHO_TIMEOUT    == 1000
LTE_SHIELD_RESET_TIMEOUT   == 10000
m_timeout                  == 5000
SETTLE_DELAY               == 20
ECHO_RETRY_DELAY           == 1000
DEFAULT_TRIES              == 5

-----------------------------------------------------------------------------
(* Sequence helpers *)
Max(a, b) == IF a >= b THEN a ELSE b

\* the time d passes: every byte in flight gets d closer
Shift(s, d) == [k \in DOMAIN s |-> [s[k] EXCEPT !.due = Max(@ - d, 0)]]

\* m_serial.available()
Available(s) == s # <<>> /\ s[1].due = 0

\* m_read_serial(start, timeout): the byte, or 255 once millis() - start > timeout
\* with nothing available.  `to` records (for the observer only) whether the
\* 255 is the timeout value.
ReadSerial(s, e, timeout) ==
    IF Available(s)
    THEN [c |-> s[1].b, rx |-> Tail(s), el |-> e, to |-> FALSE, cur |-> s[1].cur]
    ELSE IF s # <<>> /\ e + s[1].due <= timeout
    THEN [c |-> s[1].b, rx |-> Tail(Shift(s, s[1].due)), el |-> e + s[1].due,
          to |-> FALSE, cur |-> s[1].cur]
    ELSE LET w == IF e > timeout THEN 0 ELSE timeout + 1 - e
         IN  [c |-> B255, rx |-> Shift(s, w), el |-> e + w, to |-> TRUE, cur |-> TRUE]

\* while (m_serial.available()) Serial.print(m_serial.read());
RECURSIVE DrainAvailable(_)
DrainAvailable(s) == IF Available(s) THEN DrainAvailable(Tail(s)) ELSE s

\* char c = '\0'; while (m_serial.available() && c != '\n') c = m_serial.read();
RECURSIVE FlushLine(_)
FlushLine(s) ==
    IF Available(s)
    THEN IF s[1].b = LF THEN Tail(s) ELSE FlushLine(Tail(s))
    ELSE s

\* the diagnostic dump of lines 324-328 and 397-401 runs when m_debug is NONE
DumpsStream(level) == DL_ERROR > level

AfterDump(s) == IF DumpsStream(m_debug) THEN DrainAvailable(s) ELSE s

-----------------------------------------------------------------------------
(* m_response_to_error *)

\* a faulty variant: ERROR is reported as unexpected data (C5 fails with it)
m_response_to_error_ErrorAsData(resp) ==
    CASE resp = ResponseType.OK -> "UNEXPECTED_OK"
      [] resp = ResponseType.DATA -> "UNEXPECTED_DATA"
      [] resp = ResponseType.ERROR -> "UNEXPECTED_DATA"
      [] resp = ResponseType.TIMEOUT -> "TIMEOUT"
      [] OTHER             -> "UNEXPECTED_DATA"

\* a faulty variant: an OK where data was expected counts as success (C19
\* fails with it)
m_response_to_error_OkAsSuccess(resp) ==
    CASE resp = ResponseType.OK -> "OK"
      [] resp = ResponseType.DATA -> "UNEXPECTED_DATA"
      [] resp = ResponseType.ERROR -> "LTE_ERROR"
      [] resp = ResponseType.TIMEOUT -> "TIMEOUT"
      [] OTHER             -> "UNEXPECTED_DATA"

\* lines 407-415
m_response_to_error(resp) ==
    CASE resp = ResponseType.OK -> "UNEXPECTED_OK"
      [] resp = ResponseType.DATA -> "UNEXPECTED_DATA"
      [] resp = ResponseType.ERROR -> "LTE_ERROR"
      [] resp = ResponseType.TIMEOUT -> "TIMEOUT"
      [] OTHER             -> "UNEXPECTED_DATA"

\* a faulty variant: a space is not discarded (C4 fails with it)
IsSkipped_NoSpace(c) == c = LF \/ c = CR

\* characters m_check_response discards between tokens
IsSkipped(c) == c = LF \/ c = CR \/ c = SP

\* strnlen(command, LTE_SHIELD_COMMAND_MAX_LEN)
Strnlen(command) ==
    IF Len(command) < LTE_SHIELD_COMMAND_MAX_LEN THEN Len(command)
    ELSE LTE_SHIELD_COMMAND_MAX_LEN

\* command[i], 0-based as in the source
CharAt(command, i) == command[i + 1]

\* the name-check loop of lines 315-317 is still running at index i
NameLoopRuns(command, i) ==
    /\ i < Strnlen(command)
    /\ CharAt(command, i) # "="
    /\ CharAt(command, i) # "?"

\* a faulty variant: the copy stops one character early (C6 fails with it)
Clipped_Early(i, dest_max) == i >= dest_max - 2

\* a faulty variant: the copy stops one character late (C31 fails with it)
Clipped_Late(i, dest_max) == i >= dest_max

\* line 344: the copy has reached the end of the caller's buffer
Clipped(i, dest_max) == i >= dest_max - 1

\* line 302
WantsResponse(s) == s.has_response /\ s.dest_max > 0

\* line 268
timeout_calc == IF sc.timeout # 0 THEN sc.timeout ELSE m_timeout

\* lines 282-283: print("AT"); println(command)
CommandLine(s) == (IF s.at THEN <<"A", "T">> ELSE <<>>) \o s.command \o <<CR, LF>>

-----------------------------------------------------------------------------
(* The modem.  It answers a written command line with a reply it chooses,   *)
(* after a latency it chooses; the reply may arrive in two bursts.          *)

\* the command inside a written line: without the "AT" prefix and the line end
CmdOfLine(line) == SubSeq(line, 3, Len(line) - 2)

\* the command's name: the text from index 1 up to the first '=' or '?'
RECURSIVE NameFrom(_, _)
NameFrom(command, i) ==
    IF i < Len(command) /\ CharAt(command, i) # "=" /\ CharAt(command, i) # "?"
    THEN <<CharAt(command, i)>> \o NameFrom(command, i + 1)
    ELSE <<>>
CmdName(command) == NameFrom(command, 1)

OkLine    == <<"O", "K", CR, LF>>
ErrorLine == <<"E", "R", "R", "O", "R", CR, LF>>
DataLine(name, payload) == <<"+">> \o name \o <<":", SP>> \o payload \o <<CR, LF>>

\* the last due time of a stream (bytes arrive in order)
LastDue(s) == IF s = <<>> THEN 0 ELSE s[Len(s)].due

\* reply bytes with their arrival times: the first k after lat, the rest gap later
Arrivals(reply, lat, k, gap) ==
    [j \in 1..Len(reply) |->
        [b |-> reply[j], due |-> IF j <= k THEN lat ELSE lat + gap]]

\* the bytes of a reply join the stream; `said` is the value the reply reports
Deliver(a, said) ==
    /\ rx' = rx \o [j \in 1..Len(a) |->
                      [b |-> a[j].b, due |-> Max(LastDue(rx), a[j].due), cur |-> TRUE]]
    /\ obs' = [obs EXCEPT !.view = rx', !.said = said]

\* the modem reacts to the written line with one of `reactions`
DeviceReact(reactions) ==
    /\ wire # <<>>
    /\ \E a \in reactions : Deliver(a, obs.said)
    /\ wire' = <<>>
    /\ UNCHANGED <<caller, m_debug, el, pc, sc, response, err>>

-----------------------------------------------------------------------------
(* m_send_command, lines 261-369, one step per serial read *)

\* what the observer notes of a read
Saw(r) == [obs EXCEPT !.got = @ \/ ~r.to, !.fake = @ \/ (r.c = B255 /\ ~r.to),
                      !.stale = @ \/ (~r.to /\ ~r.cur)]

\* a faulty variant: a timeout after the echo step starts another attempt
\* instead of ending the call (C8 fails with it)
Return_RetryOnTimeout(e, how, o) ==
    /\ pc' = IF e = "TIMEOUT" /\ how # "exhausted" THEN "try" ELSE "done"
    /\ err' = e
    /\ el' = 0
    /\ obs' = [o EXCEPT !.lastEnd = how]

\* a return statement of m_send_command
Return(e, how, o) ==
    /\ pc' = "done"
    /\ err' = e
    /\ el' = 0
    /\ obs' = [o EXCEPT !.lastEnd = how]

\* a faulty variant: one transmission too many (C7 fails with it)
TriesLeft_OneMore(try_num, tries) == try_num <= tries

\* line 278: the loop condition
TriesLeft(try_num, tries) == try_num < tries

\* line 278 true: lines 280-284, the command line is written and flushed
SC_Transmit ==
    /\ pc = "try"
    /\ TriesLeft(sc.try_num, sc.tries)
    /\ wire' = CommandLine(sc)
    /\ obs' = [obs EXCEPT !.writes = @ + 1]
    /\ pc' = "settle"
    /\ UNCHANGED <<caller, m_debug, rx, el, sc, response, err>>

\* line 278 false: lines 367-368
SC_Exhausted ==
    /\ pc = "try"
    /\ ~TriesLeft(sc.try_num, sc.tries)
    /\ Return("TIMEOUT", "exhausted", obs)
    /\ UNCHANGED <<caller, m_debug, rx, wire, sc, response>>

\* lines 286-287: delay(20); start = millis()
SC_Settle ==
    /\ pc = "settle"
    /\ wire = <<>>
    /\ rx' = Shift(rx, SETTLE_DELAY)
    /\ el' = 0
    /\ pc' = "echo"
    /\ UNCHANGED <<caller, m_debug, wire, sc, response, err, obs>>

\* lines 289-299: skip the echo line; on 255 wait a second and try again
SC_Echo ==
    /\ pc = "echo"
    /\ LET r == ReadSerial(rx, el, LTE_SHIELD_ECHO_TIMEOUT) IN
         IF r.c = LF
         THEN /\ rx' = r.rx
              /\ el' = r.el
              /\ pc' = "check"
              /\ sc' = [sc EXCEPT !.phase = IF WantsResponse(sc) THEN "data" ELSE "final"]
              /\ obs' = Saw(r)
         ELSE IF r.c = B255
         THEN /\ rx' = Shift(r.rx, ECHO_RETRY_DELAY)
              /\ el' = 0
              /\ pc' = "try"
              /\ sc' = [sc EXCEPT !.try_num = @ + 1]
              /\ obs' = [Saw(r) EXCEPT !.lastEnd = IF r.to THEN "echo_timeout" ELSE "echo_255"]
         ELSE /\ rx' = r.rx
              /\ el' = r.el
              /\ obs' = Saw(r)
              /\ UNCHANGED <<pc, sc>>
    /\ UNCHANGED <<caller, m_debug, wire, response, err>>

\* m_check_response has classified the response: lines 305-308 and 360-365
Classified(resp, r, s) ==
    /\ rx' = s
    /\ UNCHANGED <<caller, m_debug, wire, response>>
    /\ IF sc.phase = "data"
       THEN IF resp # ResponseType.DATA
            THEN /\ Return(m_response_to_error(resp), "data_check", Saw(r))
                 /\ UNCHANGED sc
            ELSE /\ pc' = "name"
                 /\ sc' = [sc EXCEPT !.i = 1]
                 /\ el' = r.el
                 /\ obs' = Saw(r)
                 /\ UNCHANGED err
       ELSE IF resp # ResponseType.OK
            THEN /\ Return(m_response_to_error(resp), "final_check", Saw(r))
                 /\ UNCHANGED sc
            ELSE /\ Return("OK", "ok", Saw(r))
                 /\ UNCHANGED sc

\* the reader goes on in the same place
ReadOn(r) ==
    /\ rx' = r.rx
    /\ el' = r.el
    /\ obs' = Saw(r)

\* m_check_response, lines 373-404, the outer loop
SC_Check ==
    /\ pc = "check"
    /\ LET r == ReadSerial(rx, el, timeout_calc) IN
         IF r.c = B255 THEN Classified(ResponseType.TIMEOUT, r, r.rx)
         ELSE IF IsSkipped(r.c)
         THEN ReadOn(r) /\ UNCHANGED <<caller, m_debug, wire, response, pc, sc, err>>
         ELSE IF r.c = ResponseType.DATA
         THEN Classified(ResponseType.DATA, r, r.rx)
         ELSE IF r.c = ResponseType.OK
         THEN ReadOn(r) /\ pc' = "checkO" /\ UNCHANGED <<caller, m_debug, wire, response, sc, err>>
         ELSE Classified(IF r.c = "E" THEN ResponseType.ERROR ELSE ResponseType.UNKNOWN,
                         r, AfterDump(r.rx))

\* a faulty variant: the flush stops at the '\r' (C11 fails with it)
EndsOkLine_AtCR(k) == k = CR

\* line 388: the flush of the 'O' line ends
EndsOkLine(k) == k = LF

\* m_check_response, lines 384-390: flush the 'O' line up to its '\n'
SC_CheckO ==
    /\ pc = "checkO"
    /\ LET r == ReadSerial(rx, el, timeout_calc) IN
         IF r.c = B255 THEN Classified(ResponseType.TIMEOUT, r, r.rx)
         ELSE IF EndsOkLine(r.c) THEN Classified(ResponseType.OK, r, r.rx)
         ELSE ReadOn(r) /\ UNCHANGED <<caller, m_debug, wire, response, pc, sc, err>>

\* a faulty variant: the name is never compared (C9 fails with it)
Mismatch_Never(expected, c) == FALSE

\* line 322: the received character differs from the command's
Mismatch(expected, c) == expected # c

\* lines 315-331: one round of the name check
SC_Name ==
    /\ pc = "name"
    /\ NameLoopRuns(sc.command, sc.i)
    /\ LET r == ReadSerial(rx, el, timeout_calc) IN
         IF r.c = B255
         THEN /\ rx' = r.rx
              /\ Return("TIMEOUT", "name_timeout", Saw(r))
              /\ UNCHANGED sc
         ELSE IF Mismatch(CharAt(sc.command, sc.i), r.c)
         THEN /\ rx' = AfterDump(r.rx)
              /\ Return("INVALID_RESPONSE", "name_mismatch", Saw(r))
              /\ UNCHANGED sc
         ELSE /\ ReadOn(r)
              /\ sc' = [sc EXCEPT !.i = @ + 1]
              /\ UNCHANGED <<pc, err>>
    /\ UNCHANGED <<caller, m_debug, wire, response>>

\* lines 315/317: the name is over
SC_NameEnd ==
    /\ pc = "name"
    /\ ~NameLoopRuns(sc.command, sc.i)
    /\ pc' = "sep1"
    /\ UNCHANGED <<caller, m_debug, rx, wire, el, sc, response, err, obs>>

\* line 335: the two separator bytes
SC_Sep ==
    /\ pc \in {"sep1", "sep2"}
    /\ LET r == ReadSerial(rx, el, timeout_calc) IN
         IF r.c = B255
         THEN /\ rx' = r.rx
              /\ Return("TIMEOUT", "sep_timeout", Saw(r))
              /\ UNCHANGED sc
         ELSE /\ ReadOn(r)
              /\ pc' = IF pc = "sep1" THEN "sep2" ELSE "copy"
              /\ sc' = [sc EXCEPT !.i = IF pc = "sep1" THEN @ ELSE 0]
              /\ UNCHANGED err
    /\ UNCHANGED <<caller, m_debug, wire, response>>

\* lines 339-353: one round of the copy loop
SC_Copy ==
    /\ pc = "copy"
    /\ LET r == ReadSerial(rx, el, timeout_calc) IN
         IF r.c = B255
         THEN /\ rx' = r.rx
              /\ Return("TIMEOUT", "copy_timeout", Saw(r))
              /\ UNCHANGED <<sc, response>>
         ELSE IF r.c = LF \/ r.c = CR
         THEN /\ ReadOn(r)
              /\ response' = [response EXCEPT ![sc.i] = NUL]
              /\ pc' = "check"
              /\ sc' = [sc EXCEPT !.phase = "final"]
              /\ UNCHANGED err
         ELSE IF Clipped(sc.i, sc.dest_max)
         THEN /\ rx' = FlushLine(r.rx)
              /\ el' = r.el
              /\ obs' = Saw(r)
              /\ response' = [response EXCEPT ![sc.i] = NUL]
              /\ pc' = "check"
              /\ sc' = [sc EXCEPT !.phase = "final"]
              /\ UNCHANGED err
         ELSE /\ ReadOn(r)
              /\ response' = [response EXCEPT ![sc.i] = r.c]
              /\ sc' = [sc EXCEPT !.i = @ + 1]
              /\ UNCHANGED <<pc, err>>
    /\ UNCHANGED <<caller, m_debug, wire>>

SendCommandStep ==
    \/ SC_Transmit \/ SC_Exhausted \/ SC_Settle \/ SC_Echo \/ SC_Check
    \/ SC_CheckO \/ SC_Name \/ SC_NameEnd \/ SC_Sep \/ SC_Copy

\* the entry of m_send_command with its arguments; `buf` is the caller's buffer
InvokeAfter(d, command, has_response, buf, dest_max, timeout, tries) ==
    /\ sc' = [command |-> command, at |-> TRUE, has_response |-> has_response,
              dest_max |-> dest_max, timeout |-> timeout, tries |-> tries,
              try_num |-> 0, i |-> 0, phase |-> "final"]
    /\ response' = buf
    /\ pc' = "try"
    /\ rx' = [k \in DOMAIN rx |-> [Shift(rx, d)[k] EXCEPT !.cur = FALSE]]
    /\ obs' = [obs EXCEPT !.writes = 0, !.lastEnd = "none", !.got = FALSE,
                          !.fake = FALSE, !.stale = FALSE, !.said = <<>>,
                          !.callNo = IF stack = <<>> THEN @ + 1 ELSE @]

-----------------------------------------------------------------------------
(* The commands the driver issues *)
CMD_E0         == <<"E", "0">>
CMD_CFUN15     == <<"+", "C", "F", "U", "N", "=", "1", "5">>
CMD_UMNOPROF_Q == <<"+", "U", "M", "N", "O", "P", "R", "O", "F", "?">>
CMD_CREG_Q     == <<"+", "C", "R", "E", "G", "?">>

\* the shapes of the m_send_command calls in the source
\* (line 49; lines 56, 123; lines 181, 218; line 236)
CallShapes ==
    { [command |-> CMD_E0, has_response |-> FALSE, cap |-> 0, dest_max |-> 0, timeout |-> 200],
      [command |-> CMD_E0, has_response |-> FALSE, cap |-> 0, dest_max |-> 0, timeout |-> 0],
      [command |-> CMD_UMNOPROF_Q, has_response |-> TRUE, cap |-> 3, dest_max |-> 2, timeout |-> 0],
      [command |-> CMD_UMNOPROF_Q, has_response |-> TRUE, cap |-> 1, dest_max |-> 1, timeout |-> 0],
      [command |-> CMD_CREG_Q, has_response |-> TRUE, cap |-> 8, dest_max |-> 6, timeout |-> 0] }

(* enum class MNOType, enum class PDPType, the stock configurations *)
MNO_ERROR           == 0
MNO_AUTO            == 1
MNO_VERIZON         == 3
MNO_VODAPHONE       == 19
MNO_STANDARDEUROPE  == 100
PDPType == [IPV4 |-> "IPV4", NONIP |-> "NONIP", IPV4V6 |-> "IPV4V6", IPV6 |-> "IPV6",
            NONE |-> "NONE"]
NULLPTR    == <<"nullptr">>
CONFIG_HOLOGRAM == [apn |-> <<"h", "o", "l", "o", "g", "r", "a", "m">>,
                    mno |-> MNO_VERIZON, pdp |-> PDPType.IPV4]

\* the bring-up observer before begin() has run
NoBobs == [verifies |-> 0, firstVerify |-> "none", lastVerify |-> "none",
           confnets |-> 0, profile |-> <<>>, stat |-> <<>>,
           queries |-> 0, delays |-> 0, firstReg |-> 0, onlySearching |-> TRUE,
           conf |-> [e0s |-> 0, toggles |-> 0, setup |-> <<>>, oks |-> 0,
                     reset |-> FALSE, ret |-> "none"],
           entry |-> "none", pulsed |-> FALSE, cn |-> <<>>,
           pin |-> "none"]

\* the transaction observer before any call
NoObs == [writes |-> 0, view |-> <<>>, lastEnd |-> "none", got |-> FALSE,
          callNo |-> 0, said |-> <<>>, fake |-> FALSE, stale |-> FALSE,
          prev |-> <<>>]

(* Bounds: the tries of a call of the single-command harness, and the      *)
(* activations of m_wait_power_on the stack keeps apart                     *)
MaxTries == 2
MaxNest  == 3

Payloads ==
    { <<>>, <<"3">>, <<"1", "9">>, <<"1", "0", "0">>, <<"0", ",", "1">> }

\* what the modem may put after the echo line
Bodies(line) ==
    LET name == CmdName(CmdOfLine(line)) IN
    { OkLine, <<CR, LF, SP>> \o OkLine, ErrorLine, <<"@", CR, LF>> }
    \cup { DataLine(name, p) \o <<CR, LF>> \o OkLine : p \in Payloads }
    \cup { DataLine(<<"C", "S", "Q">>, <<"3">>) \o <<CR, LF>> \o OkLine }

\* the echo line: the written line itself, or a bare line end once echo is off
EchoOff == <<CR, LF>>

\* whole replies, prompt (within the settle delay) or slow (past a 200 ms
\* deadline, within the echo deadline)
WholeReplies(line) ==
    { Arrivals(EchoOff \o b, l, 0, 0) : b \in Bodies(line), l \in {0, 500} }
    \cup { Arrivals(line \o OkLine, 0, 0, 0) }

\* the echo line arrives at once, the body in two bursts: the second one
\* 500 ms later, or too late for any deadline
SplitReplies(line) ==
    UNION { { Arrivals(EchoOff \o b, 0, Len(EchoOff) + k, g) :
                k \in 0..(Len(b) - 1), g \in {500, 6000} } : b \in Bodies(line) }

\* nothing at all, or a reply that misses the echo deadline of its attempt
LateReplies(line) ==
    { <<>>, Arrivals(EchoOff \o OkLine, 2500, 0, 0) }

DeviceReactCmd ==
    DeviceReact(WholeReplies(wire) \cup SplitReplies(wire) \cup LateReplies(wire))

CmdCall ==
    /\ pc = "idle"
    /\ obs.callNo = 0
    /\ \E shape \in CallShapes, n \in 1..MaxTries :
         InvokeAfter(0, shape.command, shape.has_response,
                     [k \in 0..(shape.cap - 1) |-> NUL], shape.dest_max, shape.timeout, n)
    /\ UNCHANGED <<caller, m_debug, wire, el, err>>

InitCmd ==
    /\ m_debug \in {DL_NONE, DL_ERROR, DL_WARN, DL_INFO}
    /\ rx = <<>>
    /\ wire = <<>>
    /\ el = 0
    /\ pc = "idle"
    /\ sc = [command |-> <<>>, at |-> TRUE, has_response |-> FALSE, dest_max |-> 0,
             timeout |-> 0, tries |-> 0, try_num |-> 0, i |-> 0, phase |-> "final"]
    /\ response = <<>>
    /\ err = "OK"
    /\ obs = NoObs
    /\ stack = <<>>
    /\ ret = "OK"
    /\ began = "none"
    /\ m_net_config = CONFIG_HOLOGRAM
    /\ power_pin = "INPUT"
    /\ bobs = NoBobs

NextCmd == CmdCall \/ DeviceReactCmd \/ SendCommandStep

SpecCmd == InitCmd /\ [][NextCmd]_vars

\* m_read_serial looks at the clock only while nothing is available (lines
\* 418-424), and the loops of lines 326, 348 and 399 never do. A modem that
\* keeps sending: for another ChatterStretch ms every look of the driver at
\* the stream finds a byte that is no line end; the stretch is shown by its
\* last byte, which the next read takes.
ChatterStretch == m_timeout
Chatter ==
    /\ pc \in {"echo", "check", "checkO", "name", "sep1", "sep2", "copy"}
    /\ rx = <<>>
    /\ rx' = <<[b |-> "x", due |-> 0, cur |-> TRUE]>>
    /\ el' = IF el + ChatterStretch > 2 * ChatterStretch THEN 2 * ChatterStretch
             ELSE el + ChatterStretch
    /\ UNCHANGED <<caller, m_debug, wire, pc, sc, response, err, obs>>

\* the reply to a written line: prompt and whole, or none
DeviceReactChatter ==
    DeviceReact({ Arrivals(EchoOff \o b, 0, 0, 0) : b \in Bodies(wire) } \cup { <<>> })

NextChatter == CmdCall \/ DeviceReactChatter \/ Chatter \/ SendCommandStep

\* the clock advances, the modem reacts to a line written to it and the
\* driver takes its next step; how long the modem keeps sending is open
FairChatter ==
    InitCmd /\ [][NextChatter]_vars
    /\ WF_vars(DeviceReactChatter) /\ WF_vars(SendCommandStep)

-----------------------------------------------------------------------------
(* The two-call harness: after a first call, the same call is made again on *)
(* the same driver (CallAgain), or the first call is run again from the     *)
(* same start by a driver built with another DebugLevel (RunAgain).  The    *)
(* modem of this harness may also send the byte 255.                        *)

PairReplies(line) ==
    LET name == CmdName(CmdOfLine(line))
        data(n, p) == DataLine(n, p) \o <<CR, LF>> \o OkLine
        bodies == { OkLine, ErrorLine, <<B255>> \o OkLine,
                    data(name, <<"0", ",", "1">>), data(name, <<"0", B255>>),
                    data(<<"C", "S", "Q">>, <<"3">>) }
    IN  { Arrivals(EchoOff \o b, 0, 0, 0) : b \in bodies }
        \cup { Arrivals(line \o OkLine, 500, 0, 0),
               Arrivals(EchoOff \o OkLine, 1500, 0, 0),
               Arrivals(<<B255, CR, LF>> \o OkLine, 0, 0, 0) }

\* what the harness notes of the call that has returned
Noted(mode) ==
    [mode |-> mode, err |-> err, rest |-> [j \in 1..Len(rx) |-> rx[j].b],
     view |-> obs.view, writes |-> obs.writes, level |-> m_debug,
     config |-> m_net_config, pin |-> power_pin, lastEnd |-> obs.lastEnd]

\* the same call once more, in direct succession
CallAgain ==
    /\ pc = "done"
    /\ obs.callNo = 1
    /\ rx' = [k \in DOMAIN rx |-> [rx[k] EXCEPT !.cur = FALSE]]
    /\ sc' = [sc EXCEPT !.try_num = 0, !.i = 0, !.phase = "final"]
    /\ response' = [k \in DOMAIN response |-> NUL]
    /\ pc' = "try"
    /\ obs' = [NoObs EXCEPT !.callNo = 2, !.prev = Noted("again")]
    /\ UNCHANGED <<caller, m_debug, wire, el, err>>

\* the first call once more from the start, on a driver that differs only in
\* its DebugLevel
RunAgain ==
    /\ pc = "done"
    /\ obs.callNo = 1
    /\ m_debug' \in {DL_NONE, DL_ERROR, DL_WARN, DL_INFO} \ {m_debug}
    /\ rx' = <<>>
    /\ sc' = [sc EXCEPT !.try_num = 0, !.i = 0, !.phase = "final"]
    /\ response' = [k \in DOMAIN response |-> NUL]
    /\ pc' = "try"
    /\ obs' = [NoObs EXCEPT !.callNo = 2, !.prev = Noted("rerun")]
    /\ UNCHANGED <<caller, wire, el, err>>

NextPair ==
    \/ CmdCall \/ CallAgain \/ RunAgain \/ DeviceReact(PairReplies(wire))
    \/ SendCommandStep

SpecPair == InitCmd /\ [][NextPair]_vars

-----------------------------------------------------------------------------
(* The bring-up: begin() and the functions it calls, lines 39-258.  A frame  *)
(* of `stack` is [fn, pc, n]; n is the frame's counter (tries, i, count).    *)
(* A bring-up step runs from one m_send_command or function return to the    *)
(* next call.                                                                *)

LTE_SHIELD_POWER_PULSE_PERIOD == 3200
LTE_SHIELD_POWER_TIMEOUT      == 12000
LTE_SHIELD_REGISTER_TIMEOUT   == 30000
REGISTER_POLL_DELAY           == 500
PROBE_TIMEOUT                 == 200
PROBE_TRIES                   == 3
CONFIGURE_TRIES               == 4

CMD_CFUN0 == <<"+", "C", "F", "U", "N", "=", "0">>
CMD_COPS0 == <<"+", "C", "O", "P", "S", "=", "0">>

\* a faulty variant: the message format before the GPIO roles (C18 fails with it)
commands_Reordered ==
    << <<"+", "C", "M", "G", "F", "=", "1">>,
       <<"+", "U", "G", "P", "I", "O", "C", "=", "1", "6", ",", "2">>,
       <<"+", "U", "G", "P", "I", "O", "C", "=", "2", "3", ",", "3">>,
       <<"+", "U", "G", "P", "I", "O", "C", "=", "2", "4", ",", "1", "0">>,
       <<"+", "C", "T", "Z", "U", "=", "1">> >>

\* m_configure's commands[], lines 134-145
commands ==
    << <<"+", "U", "G", "P", "I", "O", "C", "=", "1", "6", ",", "2">>,
       <<"+", "U", "G", "P", "I", "O", "C", "=", "2", "3", ",", "3">>,
       <<"+", "U", "G", "P", "I", "O", "C", "=", "2", "4", ",", "1", "0">>,
       <<"+", "C", "M", "G", "F", "=", "1">>,
       <<"+", "C", "T", "Z", "U", "=", "1">> >>

DigitChars == <<"0", "1", "2", "3", "4", "5", "6", "7", "8", "9">>
IsDigit(c) == \E d \in 1..10 : DigitChars[d] = c
DigitVal(c) == (CHOOSE d \in 1..10 : DigitChars[d] = c) - 1

\* "%d" of snprintf, for a number >= 0
RECURSIVE Itoa(_)
Itoa(n) == IF n < 10 THEN <<DigitChars[n + 1]>>
           ELSE Itoa(n \div 10) \o <<DigitChars[(n % 10) + 1]>>

\* atoi on a NUL-terminated buffer: leading spaces, an optional sign, digits
RECURSIVE AtoiDigits(_, _, _)
AtoiDigits(buf, i, acc) ==
    IF i \in DOMAIN buf /\ IsDigit(buf[i])
    THEN AtoiDigits(buf, i + 1, acc * 10 + DigitVal(buf[i]))
    ELSE acc
RECURSIVE AtoiFrom(_, _)
AtoiFrom(buf, i) ==
    IF i \in DOMAIN buf /\ buf[i] = SP THEN AtoiFrom(buf, i + 1)
    ELSE IF i \in DOMAIN buf /\ buf[i] = "-" THEN 0 - AtoiDigits(buf, i + 1, 0)
    ELSE IF i \in DOMAIN buf /\ buf[i] = "+" THEN AtoiDigits(buf, i + 1, 0)
    ELSE AtoiDigits(buf, i, 0)
Atoi(buf) == AtoiFrom(buf, 0)

\* snprintf(buf, size, ...) keeps size - 1 characters
Snprintf(size, text) == IF Len(text) <= size - 1 THEN text ELSE SubSeq(text, 1, size - 1)

\* m_get_pdp_str, lines 429-437
m_get_pdp_str(pdp) ==
    CASE pdp = PDPType.IPV4 -> <<"I", "P">>
      [] pdp = PDPType.IPV4V6 -> <<"I", "P", "V", "4", "V", "6">>
      [] pdp = PDPType.IPV6 -> <<"I", "P", "V", "6">>
      [] pdp = PDPType.NONIP -> <<"N", "O", "I", "P">>
      [] OTHER            -> <<"I", "P", "V", "4">>

\* line 169
CmdSetProfile == Snprintf(16, <<"+", "U", "M", "N", "O", "P", "R", "O", "F", "=">>
                              \o Itoa(m_net_config.mno))
\* lines 196-198
CmdPdpContext ==
    Snprintf(84, <<"+", "C", "G", "D", "C", "O", "N", "T", "=", "1", ",", "\"">>
                 \o m_get_pdp_str(m_net_config.pdp) \o <<"\"", ",", "\"">>
                 \o m_net_config.apn \o <<"\"">>)

\* a buffer of the caller: char res[3] = {} and char res[8]
UNINIT == "<?>"
ZeroBuf(cap)   == [k \in 0..(cap - 1) |-> NUL]
UninitBuf(cap) == [k \in 0..(cap - 1) |-> UNINIT]

\* what a read of a buffer cell may give: its byte, or any byte when the cell
\* was never written
CellValues(buf, k) == IF buf[k] = UNINIT THEN {"1", "2", NUL} ELSE {buf[k]}

(* enum class RegistrationStatus *)
RegistrationStatus ==
    [DISABLED |-> "0", HOME_NETWORK |-> "1", SEARCHING |-> "2", DENIED |-> "3",
     NO_SIGNAL |-> "4", ROAMING |-> "5", HOME_SMS_ONLY |-> "6",
     ROAMING_SMS_ONLY |-> "7"]
\* a faulty variant: Roaming does not count (C14 fails with it)
Registered_HomeOnly(status) == status = RegistrationStatus.HOME_NETWORK

\* lines 241-242 and 247-248
Registered(status) ==
    status = RegistrationStatus.HOME_NETWORK \/ status = RegistrationStatus.ROAMING

\* a faulty variant: one poll more (C15 fails with it)
REGISTER_POLLS_OneMore == LTE_SHIELD_REGISTER_TIMEOUT \div REGISTER_POLL_DELAY + 1

\* line 243: the polls of one verification
REGISTER_POLLS == LTE_SHIELD_REGISTER_TIMEOUT \div REGISTER_POLL_DELAY

Top == stack[Len(stack)]
Frame(fn) == [fn |-> fn, pc |-> "start", n |-> 0]
Running(fn, at) == stack # <<>> /\ Top.fn = fn /\ Top.pc = at

\* m_send_command has returned to the frame; no call is in progress
Sent == pc = "done"
Idle == pc = "idle"

\* the fields no bring-up step writes
fixed == <<m_debug, m_net_config>>

\* after delay(d) the frame calls m_send_command and will go on at `at`
DoSend(d, command, has_response, buf, dest_max, timeout, tries, at, n) ==
    /\ InvokeAfter(d, command, has_response, buf, dest_max, timeout, tries)
    /\ stack' = [stack EXCEPT ![Len(stack)].pc = at, ![Len(stack)].n = n]
    /\ UNCHANGED <<wire, el, err, ret, began>>

\* m_send_command(command) with every default argument
DoSendPlain(d, command, at, n) ==
    DoSend(d, command, FALSE, <<>>, 0, 0, DEFAULT_TRIES, at, n)

\* after delay(d) the frame calls fn and will go on at `at`
DoCall(d, fn, at) ==
    /\ rx' = Shift(rx, d)
    /\ pc' = "idle"
    /\ stack' = Append([stack EXCEPT ![Len(stack)].pc = at], Frame(fn))
    /\ UNCHANGED <<wire, el, sc, response, err, ret, began, obs>>

\* the frame returns e
DoReturn(e) ==
    /\ pc' = "idle"
    /\ stack' = SubSeq(stack, 1, Len(stack) - 1)
    /\ ret' = e
    /\ UNCHANGED <<rx, wire, el, sc, response, err, began, obs>>

\* begin() returns b
BeginReturns(b) ==
    /\ pc' = "idle"
    /\ stack' = <<>>
    /\ began' = IF b THEN "true" ELSE "false"
    /\ UNCHANGED <<rx, wire, el, sc, response, err, ret, obs>>

\* digitalRead(m_power_detect_pin)
PinLevels == {"HIGH", "LOW"}

\* m_power_toggle, lines 83-88: the pin ends as an input
m_power_toggle == power_pin' = "INPUT"

-----------------------------------------------------------------------------
(* begin, lines 39-81 *)

\* lines 41-49 and 62-64: the pins are set up; the indicator decides
Begin_Entry ==
    /\ Running("begin", "start") /\ Idle
    /\ power_pin' = "INPUT"
    /\ \E level \in PinLevels :
         /\ IF level # "HIGH"
            THEN DoSend(0, CMD_E0, FALSE, <<>>, 0, PROBE_TIMEOUT, PROBE_TRIES, "probe", 0)
            ELSE DoCall(0, "m_reset", "reset")
         /\ bobs' = [bobs EXCEPT !.entry = level]
    /\ UNCHANGED fixed

\* lines 50-53 and 59
Begin_Probe ==
    /\ Running("begin", "probe") /\ Sent
    /\ IF err = "TIMEOUT"
       THEN /\ m_power_toggle
            /\ DoCall(LTE_SHIELD_POWER_PULSE_PERIOD, "m_wait_power_on", "waited")
            /\ bobs' = [bobs EXCEPT !.pulsed = TRUE]
       ELSE /\ BeginReturns(FALSE)
            /\ UNCHANGED <<power_pin, bobs>>
    /\ UNCHANGED fixed

\* lines 54-56
Begin_Waited ==
    /\ Running("begin", "waited") /\ Idle
    /\ IF ret # "OK"
       THEN BeginReturns(FALSE)
       ELSE DoSendPlain(0, CMD_E0, "tested", 0)
    /\ bobs' = [bobs EXCEPT !.pin = "none"]
    /\ UNCHANGED <<fixed, power_pin>>

\* lines 56-57 and 69
Begin_Tested ==
    /\ Running("begin", "tested") /\ Sent
    /\ IF err # "OK"
       THEN BeginReturns(FALSE)
       ELSE DoCall(1000, "m_verify_network", "verified1")
    /\ UNCHANGED <<fixed, power_pin, bobs>>

\* lines 65 and 69
Begin_Reset ==
    /\ Running("begin", "reset") /\ Idle
    /\ IF ret # "OK"
       THEN BeginReturns(FALSE)
       ELSE DoCall(0, "m_verify_network", "verified1")
    /\ UNCHANGED <<fixed, power_pin, bobs>>

\* a faulty variant: any failure leads to a reconfiguration (C16 fails with it)
NeedsReconfiguration_AnyFailure(e) == e # "OK"

\* line 71: the condition on the first verification's result
NeedsReconfiguration(e) == e = "LTE_BAD_CONFIG"

\* lines 71-72 and 78
Begin_Verified1 ==
    /\ Running("begin", "verified1") /\ Idle
    /\ IF NeedsReconfiguration(ret)
       THEN DoCall(0, "m_configure_network", "configured")
       ELSE BeginReturns(FALSE)
    /\ UNCHANGED <<fixed, power_pin, bobs>>

\* lines 73-75
Begin_Configured ==
    /\ Running("begin", "configured") /\ Idle
    /\ IF ret # "OK"
       THEN BeginReturns(FALSE)
       ELSE DoCall(0, "m_verify_network", "verified2")
    /\ UNCHANGED <<fixed, power_pin, bobs>>

\* lines 76 and 79-80
Begin_Verified2 ==
    /\ Running("begin", "verified2") /\ Idle
    /\ BeginReturns(ret = "OK")
    /\ UNCHANGED <<fixed, power_pin, bobs>>

-----------------------------------------------------------------------------
(* m_wait_power_on, lines 90-103 *)

\* line 97: the frame calls m_configure.  The stack keeps at most MaxNest
\* activations of m_wait_power_on apart: a deeper one takes the place of the
\* one that called it through m_configure and m_reset.
CallConfigure ==
    LET at == [stack EXCEPT ![Len(stack)].pc = "configured"]
        depth == Cardinality({k \in DOMAIN stack : stack[k].fn = "m_wait_power_on"})
        kept == IF depth >= MaxNest /\ Len(stack) > 3
                THEN SubSeq(at, 1, Len(at) - 3)
                ELSE at
    IN  /\ rx' = Shift(rx, LTE_SHIELD_POWER_TIMEOUT)
        /\ pc' = "idle"
        /\ stack' = Append(kept, Frame("m_configure"))
        /\ UNCHANGED <<wire, el, sc, response, err, ret, began, obs>>

\* the calls of m_wait_power_on still running, within which the indicator
\* has now been read HIGH, take note of it
ReadHigh(st) ==
    [k \in DOMAIN st |-> IF st[k].fn = "m_wait_power_on" THEN [st[k] EXCEPT !.n = 1]
                         ELSE st[k]]

\* lines 92-96 and 102: the loop ends on a HIGH reading, or the indicator
\* stays low past LTE_SHIELD_POWER_TIMEOUT
WPO_Wait ==
    /\ Running("m_wait_power_on", "start") /\ Idle
    /\ \E level \in PinLevels :
         /\ IF level = "HIGH"
            THEN /\ pc' = "idle"
                 /\ stack' = ReadHigh(SubSeq(stack, 1, Len(stack) - 1))
                 /\ ret' = "OK"
                 /\ UNCHANGED <<rx, wire, el, sc, response, err, began, obs>>
            ELSE CallConfigure
         /\ bobs' = [bobs EXCEPT !.pin = level]
    /\ UNCHANGED <<fixed, power_pin>>

\* a faulty variant: the wait ends well whatever m_configure returned (C30
\* fails with it)
FallbackFailed_Never(e) == FALSE

\* line 98: if (err != Error::OK) return err;
FallbackFailed(e) == e # "OK"

\* lines 98-99 and 102
WPO_Configured ==
    /\ Running("m_wait_power_on", "configured") /\ Idle
    /\ IF FallbackFailed(ret) THEN DoReturn(ret) ELSE DoReturn("OK")
    /\ UNCHANGED <<fixed, power_pin, bobs>>

-----------------------------------------------------------------------------
(* m_reset, lines 105-118 *)

\* line 107
Reset_Start ==
    /\ Running("m_reset", "start") /\ Idle
    /\ DoSend(0, CMD_CFUN15, FALSE, <<>>, 0, LTE_SHIELD_RESET_TIMEOUT, DEFAULT_TRIES,
              "cfun", 0)
    /\ UNCHANGED <<fixed, power_pin, bobs>>

\* a faulty variant: m_reset goes on whatever a step returned (C29 fails
\* with it)
ResetStepFailed_Never(e) == FALSE

\* lines 108 and 112: if (err != Error::OK) return err;
ResetStepFailed(e) == e # "OK"

\* lines 108-111
Reset_Cfun ==
    /\ Running("m_reset", "cfun") /\ Sent
    /\ IF ResetStepFailed(err)
       THEN DoReturn(err)
       ELSE DoCall(300, "m_wait_power_on", "waited")
    /\ UNCHANGED <<fixed, power_pin, bobs>>

\* lines 112-117
Reset_Waited ==
    /\ Running("m_reset", "waited") /\ Idle
    /\ IF ResetStepFailed(ret)
       THEN DoReturn(ret)
       ELSE DoSend(300, CMD_E0, FALSE, <<>>, 0, LTE_SHIELD_RESET_TIMEOUT, DEFAULT_TRIES,
                   "e0", 0)
    /\ bobs' = [bobs EXCEPT !.pin = "none"]
    /\ UNCHANGED <<fixed, power_pin>>

\* line 117: the result of the last command is the result of m_reset
Reset_E0 ==
    /\ Running("m_reset", "e0") /\ Sent
    /\ DoReturn(err)
    /\ UNCHANGED <<fixed, power_pin, bobs>>

-----------------------------------------------------------------------------
(* m_configure, lines 120-155; the frame's n is `tries`, then `i` *)

\* lines 122-123
Conf_Start ==
    /\ Running("m_configure", "start") /\ Idle
    /\ DoSendPlain(0, CMD_E0, "e0", 0)
    /\ bobs' = [bobs EXCEPT !.conf = [NoBobs.conf EXCEPT !.e0s = 1], !.pin = "none"]
    /\ UNCHANGED <<fixed, power_pin>>

\* a faulty variant: one probe more (C17 fails with it)
ProbeAgain_OneMore(e, tries) == e # "OK" /\ tries < CONFIGURE_TRIES

\* line 124: while (err != Error::OK && ++tries < 4), `tries` before the test
ProbeAgain(e, tries) == e # "OK" /\ tries + 1 < CONFIGURE_TRIES

\* lines 124-132 and the first pass of line 148
Conf_E0 ==
    /\ Running("m_configure", "e0") /\ Sent
    /\ IF ProbeAgain(err, Top.n)
       THEN /\ m_power_toggle
            /\ DoSendPlain(LTE_SHIELD_POWER_PULSE_PERIOD + LTE_SHIELD_POWER_TIMEOUT,
                           CMD_E0, "e0", Top.n + 1)
            /\ bobs' = [bobs EXCEPT !.conf.e0s = @ + 1, !.conf.toggles = @ + 1]
       ELSE /\ IF err # "OK"
               THEN /\ DoReturn("LTE_NOT_FOUND")
                    /\ bobs' = [bobs EXCEPT !.conf.ret = "LTE_NOT_FOUND"]
               ELSE /\ DoSendPlain(0, commands[1], "cmd", 0)
                    /\ bobs' = [bobs EXCEPT !.conf.setup = <<commands[1]>>]
            /\ UNCHANGED power_pin
    /\ UNCHANGED fixed

\* lines 147-153
Conf_Cmd ==
    /\ Running("m_configure", "cmd") /\ Sent
    /\ IF err # "OK"
       THEN /\ DoReturn(err)
            /\ bobs' = [bobs EXCEPT !.conf.ret = err]
       ELSE IF Top.n + 1 < Len(commands)
       THEN /\ DoSendPlain(100, commands[Top.n + 2], "cmd", Top.n + 1)
            /\ bobs' = [bobs EXCEPT !.conf.oks = @ + 1,
                                    !.conf.setup = Append(@, commands[Top.n + 2])]
       ELSE /\ DoCall(100, "m_reset", "reset")
            /\ bobs' = [bobs EXCEPT !.conf.oks = @ + 1, !.conf.reset = TRUE]
    /\ UNCHANGED <<fixed, power_pin>>

\* line 154
Conf_Reset ==
    /\ Running("m_configure", "reset") /\ Idle
    /\ DoReturn(ret)
    /\ bobs' = [bobs EXCEPT !.conf = IF ret = "OK" THEN NoBobs.conf ELSE @]
    /\ UNCHANGED <<fixed, power_pin>>

-----------------------------------------------------------------------------
(* m_verify_network, lines 213-258; the frame's n is `count` *)

\* m_verify_network returns e
VerReturn(e, b) ==
    /\ DoReturn(e)
    /\ bobs' = [b EXCEPT !.lastVerify = e,
                         !.firstVerify = IF b.verifies = 1 THEN e ELSE @]

\* lines 217-218
Ver_Start ==
    /\ Running("m_verify_network", "start") /\ Idle
    /\ DoSend(0, CMD_UMNOPROF_Q, TRUE, ZeroBuf(3), 2, 0, DEFAULT_TRIES, "profile", 0)
    /\ bobs' = [bobs EXCEPT !.verifies = @ + 1, !.lastVerify = "none",
                            !.profile = <<>>, !.stat = <<>>, !.queries = 0,
                            !.delays = 0, !.firstReg = 0, !.onlySearching = TRUE,
                            !.entry = "none", !.pulsed = FALSE, !.cn = <<>>]
    /\ UNCHANGED <<fixed, power_pin>>

\* a faulty variant: only the error profile is refused (C22 fails with it)
BadProfile_OnlyError(num, mno) == num = MNO_ERROR

\* lines 221-222: the profile is refused
BadProfile(num, mno) == num = MNO_ERROR \/ num # mno

\* lines 219-225 and 229-236
Ver_Profile ==
    /\ Running("m_verify_network", "profile") /\ Sent
    /\ IF err # "OK"
       THEN VerReturn(err, bobs)
       ELSE LET b == [bobs EXCEPT !.profile = obs.said] IN
            IF BadProfile(Atoi(response), m_net_config.mno)
            THEN VerReturn("LTE_BAD_CONFIG", b)
            ELSE /\ DoSend(0, CMD_CREG_Q, TRUE, UninitBuf(8), 6, 0, DEFAULT_TRIES,
                           "creg", 0)
                 /\ bobs' = [b EXCEPT !.queries = 1]
    /\ UNCHANGED <<fixed, power_pin>>

\* lines 237-257
Ver_Creg ==
    /\ Running("m_verify_network", "creg") /\ Sent
    /\ IF err # "OK"
       THEN VerReturn(err, bobs)
       ELSE \E status \in CellValues(response, 2) :
              LET b == [bobs EXCEPT
                           !.stat = obs.said,
                           !.firstReg =
                               IF @ = 0 /\ obs.said \in {<<RegistrationStatus.HOME_NETWORK>>,
                                                         <<RegistrationStatus.ROAMING>>}
                               THEN bobs.queries ELSE @] IN
              IF Registered(status)
              THEN VerReturn("OK", b)
              ELSE IF Top.n + 1 >= REGISTER_POLLS
              THEN VerReturn("LTE_REGISTRATION_FAILED", b)
              ELSE /\ DoSend(REGISTER_POLL_DELAY, CMD_CREG_Q, TRUE, response, 6, 0,
                             DEFAULT_TRIES, "creg", Top.n + 1)
                   /\ bobs' = [b EXCEPT
                                 !.queries = @ + 1, !.delays = @ + 1,
                                 !.onlySearching =
                                     @ /\ obs.said = <<RegistrationStatus.SEARCHING>>]
    /\ UNCHANGED <<fixed, power_pin>>

-----------------------------------------------------------------------------
(* m_configure_network, lines 157-211 *)

\* line 162
CN_Start ==
    /\ Running("m_configure_network", "start") /\ Idle
    /\ DoSendPlain(0, CMD_CFUN0, "cfun0", 0)
    /\ bobs' = [bobs EXCEPT !.confnets = @ + 1,
                            !.cn = <<[what |-> sc'.command, res |-> "pending"]>>]
    /\ UNCHANGED <<fixed, power_pin>>

\* the record of m_configure_network's steps: the step that has returned e
\* is closed, and the call this step makes, if it makes one, is entered
Stepped(e) ==
    LET n == Len(bobs.cn)
        closed == [bobs.cn EXCEPT ![n].res = e]
    IN  [bobs EXCEPT !.cn =
           IF Len(stack') < Len(stack) THEN closed
           ELSE IF Len(stack') > Len(stack)
           THEN Append(closed, [what |-> <<stack'[Len(stack')].fn>>, res |-> "pending"])
           ELSE Append(closed, [what |-> sc'.command, res |-> "pending"])]

\* lines 163-170
CN_Cfun0 ==
    /\ Running("m_configure_network", "cfun0") /\ Sent
    /\ IF err # "OK"
       THEN DoReturn(err)
       ELSE DoSendPlain(1000, CmdSetProfile, "setprof", 0)
    /\ bobs' = Stepped(err)
    /\ UNCHANGED <<fixed, power_pin>>

\* lines 171-174
CN_SetProfile ==
    /\ Running("m_configure_network", "setprof") /\ Sent
    /\ IF err # "OK"
       THEN DoReturn(err)
       ELSE DoCall(0, "m_reset", "reset1")
    /\ bobs' = Stepped(err)
    /\ UNCHANGED <<fixed, power_pin>>

\* a faulty variant: an APN alone suffices (C28 fails with it)
WantsPdp_ApnOnly(config) == config.apn # NULLPTR

\* line 193
WantsPdp(config) == config.pdp # PDPType.NONE /\ config.apn # NULLPTR

\* a faulty variant: without a PDP context the second reset is left out
\* (C26 fails with it)
PdpOrReset_NoReset(d) ==
    IF WantsPdp(m_net_config)
    THEN DoSendPlain(d, CmdPdpContext, "pdp", 0)
    ELSE DoSendPlain(d, CMD_COPS0, "cops", 0)

\* lines 193-205, entered after delay(d)
PdpOrReset(d) ==
    IF WantsPdp(m_net_config)
    THEN DoSendPlain(d, CmdPdpContext, "pdp", 0)
    ELSE DoCall(d, "m_reset", "reset2")

\* lines 175-181
CN_Reset1 ==
    /\ Running("m_configure_network", "reset1") /\ Idle
    /\ IF ret # "OK"
       THEN DoReturn(ret)
       ELSE IF m_net_config.mno = MNO_AUTO
       THEN DoSend(1000, CMD_UMNOPROF_Q, TRUE, ZeroBuf(3), 2, 0, DEFAULT_TRIES, "auto", 0)
       ELSE PdpOrReset(1000)
    /\ bobs' = Stepped(ret)
    /\ UNCHANGED <<fixed, power_pin>>

\* a faulty variant: a zero is taken for a profile (C27 fails with it)
NoProfileChosen_OnlyNegative(num) == num < 0

\* line 185
NoProfileChosen(num) == num <= 0

\* lines 182-190
CN_Auto ==
    /\ Running("m_configure_network", "auto") /\ Sent
    /\ IF err # "OK"
       THEN DoReturn(err)
       ELSE IF NoProfileChosen(Atoi(response))
       THEN DoReturn("LTE_AUTO_MNO_FAILED")
       ELSE PdpOrReset(1000)
    /\ bobs' = Stepped(err)
    /\ UNCHANGED <<fixed, power_pin>>

\* lines 200-205
CN_Pdp ==
    /\ Running("m_configure_network", "pdp") /\ Sent
    /\ IF err # "OK"
       THEN DoReturn(err)
       ELSE DoCall(500, "m_reset", "reset2")
    /\ bobs' = Stepped(err)
    /\ UNCHANGED <<fixed, power_pin>>

\* lines 206-209
CN_Reset2 ==
    /\ Running("m_configure_network", "reset2") /\ Idle
    /\ IF ret # "OK"
       THEN DoReturn(ret)
       ELSE DoSendPlain(1000, CMD_COPS0, "cops", 0)
    /\ bobs' = Stepped(ret)
    /\ UNCHANGED <<fixed, power_pin>>

\* line 210
CN_Cops ==
    /\ Running("m_configure_network", "cops") /\ Sent
    /\ DoReturn(err)
    /\ bobs' = Stepped(err)
    /\ UNCHANGED <<fixed, power_pin>>

-----------------------------------------------------------------------------
(* The bring-up harness: one begin() call against a modem that answers at   *)
(* once or not at all                                                        *)

\* a configuration with automatic profile selection and no PDP context
AutoConfig == [apn |-> NULLPTR, mno |-> MNO_AUTO, pdp |-> PDPType.NONE]

\* the profile numbers and registration states the modem may report; until
\* it reports HomeNetwork or Roaming the modem keeps to the status it gave to
\* the poll before
Profiles == { <<"0">>, <<"3">>, <<"1", "9">> }
Statuses == { RegistrationStatus[f] : f \in DOMAIN RegistrationStatus }

\* the answers to a command line: what follows the echo line, and the value
\* the modem reports in it
Answers(line) ==
    LET cmd == CmdOfLine(line)
        now == IF bobs.stat = <<>>
               THEN Statuses
               ELSE { bobs.stat[1], RegistrationStatus.HOME_NETWORK,
                      RegistrationStatus.ROAMING }
    IN
    (IF cmd = CMD_UMNOPROF_Q
     THEN { [body |-> DataLine(CmdName(cmd), p) \o <<CR, LF>> \o OkLine, said |-> p] :
              p \in Profiles }
     ELSE IF cmd = CMD_CREG_Q
     THEN { [body |-> DataLine(CmdName(cmd), <<"0", ",", s>>) \o <<CR, LF>> \o OkLine,
             said |-> <<s>>] : s \in now }
     ELSE { [body |-> OkLine, said |-> obs.said] })
    \cup { [body |-> ErrorLine, said |-> obs.said] }

\* the modem answers the written line at once, or misses it
DeviceReactBegin ==
    /\ wire # <<>>
    /\ \/ \E r \in Answers(wire) : Deliver(Arrivals(EchoOff \o r.body, 0, 0, 0), r.said)
       \/ Deliver(<<>>, obs.said)
    /\ wire' = <<>>
    /\ UNCHANGED <<caller, m_debug, el, pc, sc, response, err>>

InitBegin ==
    /\ m_debug \in {DL_NONE, DL_INFO}
    /\ rx = <<>>
    /\ wire = <<>>
    /\ el = 0
    /\ pc = "idle"
    /\ sc = [command |-> <<>>, at |-> TRUE, has_response |-> FALSE, dest_max |-> 0,
             timeout |-> 0, tries |-> 0, try_num |-> 0, i |-> 0, phase |-> "final"]
    /\ response = <<>>
    /\ err = "OK"
    /\ obs = NoObs
    /\ stack = <<Frame("begin")>>
    /\ ret = "OK"
    /\ began = "none"
    /\ m_net_config \in { CONFIG_HOLOGRAM, AutoConfig,
                          [CONFIG_HOLOGRAM EXCEPT !.mno = MNO_VODAPHONE,
                                                  !.pdp = PDPType.NONE],
                          [AutoConfig EXCEPT !.mno = MNO_VODAPHONE,
                                             !.pdp = PDPType.IPV4V6] }
    /\ power_pin = "INPUT"
    /\ bobs = NoBobs

NextBegin ==
    \/ Begin_Entry \/ Begin_Probe \/ Begin_Waited \/ Begin_Tested \/ Begin_Reset
    \/ Begin_Verified1 \/ Begin_Configured \/ Begin_Verified2
    \/ WPO_Wait \/ WPO_Configured
    \/ Reset_Start \/ Reset_Cfun \/ Reset_Waited \/ Reset_E0
    \/ Conf_Start \/ Conf_E0 \/ Conf_Cmd \/ Conf_Reset
    \/ Ver_Start \/ Ver_Profile \/ Ver_Creg
    \/ CN_Start \/ CN_Cfun0 \/ CN_SetProfile \/ CN_Reset1 \/ CN_Auto \/ CN_Pdp
    \/ CN_Reset2 \/ CN_Cops
    \/ DeviceReactBegin \/ SendCommandStep

SpecBegin == InitBegin /\ [][NextBegin]_vars

\* the clock advances and every step that can be taken is taken
FairBegin == SpecBegin /\ WF_vars(NextBegin)

-----------------------------------------------------------------------------
(* Reading the stream the modem put before an attempt (obs.view) *)

Bytes(v) == [j \in 1..Len(v) |-> v[j].b]

\* first index >= j holding '\n', or Len + 1
RECURSIVE FindLF(_, _)
FindLF(b, j) == IF j > Len(b) \/ b[j] = LF THEN j ELSE FindLF(b, j + 1)

\* first index >= j holding '\r' or '\n', or Len + 1
RECURSIVE FindEOL(_, _)
FindEOL(b, j) == IF j > Len(b) \/ b[j] = LF \/ b[j] = CR THEN j ELSE FindEOL(b, j + 1)

\* first index >= j holding a byte that is not CR, LF or space, or Len + 1
RECURSIVE SkipWs(_, _)
SkipWs(b, j) == IF j > Len(b) \/ b[j] \notin {CR, LF, SP} THEN j ELSE SkipWs(b, j + 1)

HasAt(b, j, p) == j + Len(p) - 1 <= Len(b) /\ SubSeq(b, j, j + Len(p) - 1) = p

\* the bytes from..to are available no later than `deadline` after start
InTime(v, from, to, deadline) ==
    \A j \in from..to : v[j].due <= SETTLE_DELAY + deadline

\* an attempt has run to its end: the call has returned or is about to retry
AttemptOver == pc \in {"try", "done"} /\ obs.writes >= 1

\* index of the '\n' ending the first line of the stream
EchoEnd(v) == FindLF(Bytes(v), 1)

\* the first line arrives within the echo deadline
EchoInTime(v) ==
    /\ EchoEnd(v) <= Len(v)
    /\ InTime(v, 1, EchoEnd(v), LTE_SHIELD_ECHO_TIMEOUT)

\* from index j: CR/LF/space, then a line beginning with 'O', all within the deadline
OkLineInTime(v, j) ==
    LET b == Bytes(v)
        q == SkipWs(b, j)
    IN  /\ q <= Len(b)
        /\ b[q] = "O"
        /\ FindLF(b, q) <= Len(b)
        /\ InTime(v, j, FindLF(b, q), timeout_calc)

\* the structured reply the stream holds after the echo line:
\* '+' name ': ' payload, a line ending and an OK line, all within the deadline
DataStart(v)    == SkipWs(Bytes(v), EchoEnd(v) + 1)
PayloadStart(v) == DataStart(v) + 1 + Len(CmdName(sc.command)) + 2
PayloadEnd(v)   == FindEOL(Bytes(v), PayloadStart(v))
Payload(v)      == SubSeq(Bytes(v), PayloadStart(v), PayloadEnd(v) - 1)

DataReplyInTime(v) ==
    /\ EchoInTime(v)
    /\ HasAt(Bytes(v), DataStart(v), <<"+">> \o CmdName(sc.command) \o <<":", SP>>)
    /\ HasAt(Bytes(v), PayloadEnd(v), <<CR, LF>>)
    /\ InTime(v, EchoEnd(v) + 1, PayloadEnd(v) + 1, timeout_calc)
    /\ OkLineInTime(v, PayloadEnd(v) + 2)

-----------------------------------------------------------------------------
(* The bring-up.  bobs.profile and bobs.stat are the values in the modem's  *)
(* replies to the last verification (stat: in the reply to its last poll),  *)
(* not what the driver parsed from them.                                     *)

\* C1: begin() returns true only if the most recent m_verify_network call
\* returned OK, that is, the modem's profile equalled the configured MNO and
\* a registration poll reported HomeNetwork or Roaming; on every other path
\* it returns false.
C1_TrueOnlyIfVerified ==
    /\ (began = "true")
         => /\ bobs.lastVerify = "OK"
            /\ bobs.profile = Itoa(m_net_config.mno)
            /\ bobs.stat \in { <<RegistrationStatus.HOME_NETWORK>>,
                                <<RegistrationStatus.ROAMING>> }
    /\ (began # "none" /\ bobs.lastVerify # "OK") => began = "false"

\* C2: if the first m_verify_network call of begin() returns OK, begin()
\* returns true, without a network reconfiguration.
C2_FirstVerifyOkSucceeds ==
    (began # "none" /\ bobs.firstVerify = "OK")
    => (began = "true" /\ bobs.confnets = 0)

\* C3: every call to begin() eventually returns, also when the power
\* indicator never reads HIGH while the modem keeps answering.
C3_BeginReturns == <>(began # "none")

-----------------------------------------------------------------------------
\* C4: a command sent with no reply buffer whose attempt receives, within the
\* deadlines, an echo line, then CR/LF/space bytes, then a line beginning with
\* 'O' returns Error::OK on that attempt.
C4_OkLineGivesOk ==
    ( /\ AttemptOver
      /\ ~WantsResponse(sc)
      /\ EchoInTime(obs.view)
      /\ OkLineInTime(obs.view, EchoEnd(obs.view) + 1) )
    => (pc = "done" /\ err = "OK" /\ obs.lastEnd = "ok")

\* C4 witness: the probe of line 49 (timeout 200) returns OK on a reply that
\* has a space before its OK line
C4_Witness ==
    /\ pc = "done" /\ err = "OK" /\ ~WantsResponse(sc) /\ sc.timeout = 200
    /\ EchoInTime(obs.view)
    /\ OkLineInTime(obs.view, EchoEnd(obs.view) + 1)
    /\ \E j \in 1..Len(obs.view) : obs.view[j].b = SP

\* C5: with no reply buffer, when the first byte after the echo line that is
\* not CR, LF or space is the 'E' of an ERROR line, the call returns LTE_ERROR
\* and the command is not transmitted again.
ErrorLineInTime(v) ==
    LET b == Bytes(v)
        q == SkipWs(b, EchoEnd(v) + 1)
    IN  /\ EchoInTime(v)
        /\ HasAt(b, q, <<"E", "R", "R", "O", "R">>)
        /\ InTime(v, EchoEnd(v) + 1, q, timeout_calc)

C5_ErrorLineGivesLteError ==
    (AttemptOver /\ ~WantsResponse(sc) /\ ErrorLineInTime(obs.view))
    => (pc = "done" /\ err = "LTE_ERROR" /\ obs.lastEnd = "final_check")

\* C5 witness: an ERROR reply to the first of two allowed tries; the call is
\* over after one transmission
C5_Witness ==
    /\ pc = "done" /\ err = "LTE_ERROR" /\ ~WantsResponse(sc)
    /\ ErrorLineInTime(obs.view)
    /\ sc.tries = 2 /\ obs.writes = 1

\* C6: a structured query whose buffer is larger than the payload, answered
\* by '+' name ': ' payload, a line ending and an OK line, returns OK with the
\* buffer holding exactly the payload and a NUL after it.
C6_PayloadCopied ==
    ( /\ AttemptOver
      /\ WantsResponse(sc)
      /\ DataReplyInTime(obs.view)
      /\ Len(Payload(obs.view)) < sc.dest_max )
    => ( /\ pc = "done" /\ err = "OK"
         /\ \A j \in 1..Len(Payload(obs.view)) : response[j - 1] = Payload(obs.view)[j]
         /\ response[Len(Payload(obs.view))] = NUL )

\* C6 witness: '+CREG: 0,1' read into the buffer of line 236
C6_Witness ==
    /\ pc = "done" /\ err = "OK" /\ sc.command = CMD_CREG_Q
    /\ DataReplyInTime(obs.view)
    /\ Payload(obs.view) = <<"0", ",", "1">>
    /\ response[0] = "0" /\ response[1] = "," /\ response[2] = "1" /\ response[3] = NUL

\* C7: when no read of the call ever gets a byte, a call with tries = N writes
\* the command line exactly N times and returns TIMEOUT.
C7_SilentModemTimesOut ==
    (pc = "done" /\ ~obs.got)
    => (err = "TIMEOUT" /\ obs.writes = sc.tries /\ obs.lastEnd = "exhausted")

\* C7 witness: two tries, two transmissions, no byte read
C7_Witness ==
    pc = "done" /\ ~obs.got /\ sc.tries = 2 /\ obs.writes = 2 /\ err = "TIMEOUT"

\* C8: inside one call the command line is written again only right after an
\* attempt whose echo step ended in a reader timeout; an attempt that ends in
\* any other way ends the call.
C8_RetryOnlyAfterEchoTimeout ==
    [][ /\ (obs'.writes = obs.writes + 1 /\ obs.writes >= 1)
            => obs.lastEnd = "echo_timeout"
        /\ (obs'.lastEnd \notin {"none", "echo_timeout"}) => pc' = "done"
      ]_vars

\* C8 witness: a second transmission was made and the second attempt's
\* failure ended the call
C8_Witness ==
    pc = "done" /\ obs.writes = 2 /\ obs.lastEnd = "name_mismatch"

\* C9: with a reply buffer, when the bytes after '+' differ from the command's
\* name, the call returns INVALID_RESPONSE at the first differing character
\* and the command is not transmitted again.
FirstDiff(v) ==
    LET b == Bytes(v)
        name == CmdName(sc.command)
        q == DataStart(v)
    IN  IF \E d \in 1..Len(name) : q + d <= Len(b) /\ b[q + d] # name[d]
        THEN CHOOSE d \in 1..Len(name) :
                /\ q + d <= Len(b) /\ b[q + d] # name[d]
                /\ \A e \in 1..(d - 1) : b[q + e] = name[e]
        ELSE 0

NameDiffersInTime(v) ==
    /\ EchoInTime(v)
    /\ HasAt(Bytes(v), DataStart(v), <<"+">>)
    /\ FirstDiff(v) > 0
    /\ InTime(v, EchoEnd(v) + 1, DataStart(v) + FirstDiff(v), timeout_calc)

C9_NameMismatchInvalid ==
    (AttemptOver /\ WantsResponse(sc) /\ NameDiffersInTime(obs.view))
    => ( /\ pc = "done" /\ err = "INVALID_RESPONSE"
         /\ obs.lastEnd = "name_mismatch"
         /\ sc.i = FirstDiff(obs.view) )

\* C9 witness: '+CSQ' answered to '+CREG?', refused at the 'S', one
\* transmission of two allowed
C9_Witness ==
    /\ pc = "done" /\ err = "INVALID_RESPONSE" /\ sc.command = CMD_CREG_Q
    /\ NameDiffersInTime(obs.view) /\ FirstDiff(obs.view) = 2
    /\ sc.tries = 2 /\ obs.writes = 1

\* C10: a structured reply whose payload is longer than dest_max - 1, arriving
\* within the deadline in whatever bursts, returns OK with the first
\* dest_max - 1 payload characters and a NUL in the buffer.
C10_TruncationIsOk ==
    ( /\ AttemptOver
      /\ WantsResponse(sc)
      /\ DataReplyInTime(obs.view)
      /\ Len(Payload(obs.view)) > sc.dest_max - 1 )
    => ( /\ pc = "done" /\ err = "OK"
         /\ \A j \in 1..(sc.dest_max - 1) : response[j - 1] = Payload(obs.view)[j]
         /\ response[sc.dest_max - 1] = NUL )

-----------------------------------------------------------------------------
\* C11: 'ATE0' sent twice in direct succession, the modem answering each
\* transmission in time with exactly an echo line (a line holding no byte
\* 255) and an OK line, returns Error::OK both times, leaves no byte of
\* either answer in the receive buffer, and changes no field of the driver.
C11_TwiceSameOutcome ==
    LET answer(v) == SelectSeq(v, LAMBDA x : x.cur)
        proper(v) == /\ EchoInTime(v)
                     /\ \A j \in 1..EchoEnd(v) : v[j].b # B255
                     /\ HasAt(Bytes(v), EchoEnd(v) + 1, OkLine)
                     /\ Len(v) = EchoEnd(v) + Len(OkLine)
                     /\ InTime(v, EchoEnd(v) + 1, Len(v), timeout_calc)
    IN  ( /\ pc = "done" /\ obs.callNo = 2 /\ obs.prev.mode = "again"
          /\ sc.command = CMD_E0
          /\ obs.prev.writes = 1 /\ obs.writes = 1
          /\ proper(obs.prev.view) /\ proper(answer(obs.view)) )
        => /\ obs.prev.err = "OK" /\ obs.prev.rest = <<>>
           /\ err = "OK" /\ rx = <<>>
           /\ m_debug = obs.prev.level
           /\ m_net_config = obs.prev.config
           /\ power_pin = obs.prev.pin

\* C11 witness: the second 'ATE0' has returned OK on an empty buffer, both
\* answers having been the echoed command line and an OK line
C11_Witness ==
    /\ pc = "done" /\ obs.callNo = 2 /\ obs.prev.mode = "again"
    /\ sc.command = CMD_E0
    /\ obs.prev.writes = 1 /\ obs.writes = 1
    /\ Bytes(obs.prev.view) = CommandLine(sc) \o OkLine
    /\ Bytes(obs.view) = CommandLine(sc) \o OkLine
    /\ obs.prev.err = "OK" /\ err = "OK" /\ rx = <<>>

-----------------------------------------------------------------------------
\* C12: the value m_read_serial returns on timeout differs from every byte
\* the transport delivers: once a call has read a received byte 255, it
\* neither retries for a missing echo nor returns Error::TIMEOUT on account
\* of that byte.
C12_SentinelDistinct ==
    obs.fake => /\ obs.lastEnd # "echo_255"
                /\ ~(pc = "done" /\ err = "TIMEOUT")

-----------------------------------------------------------------------------
\* C13: two runs of the same m_send_command call that differ only in the
\* DebugLevel and meet the same modem bytes at the same times return the
\* same Error and leave the same bytes unread in the modem stream.
C13_DebugLevelNoInfluence ==
    ( /\ pc = "done" /\ obs.callNo = 2 /\ obs.prev.mode = "rerun"
      /\ obs.prev.writes = 1 /\ obs.writes = 1
      /\ obs.prev.view = obs.view )
    => /\ obs.prev.err = err
       /\ obs.prev.rest = Bytes(rx)

-----------------------------------------------------------------------------
(* The registration poll.  bobs.queries counts the '+CREG?' calls of the     *)
(* verification, bobs.delays its 500 ms waits, bobs.firstReg is the number   *)
(* of the first query that returned OK on a reply reporting HomeNetwork or   *)
(* Roaming, bobs.onlySearching says every earlier reply reported Searching.  *)

\* C14: once the profile check has passed and while every '+CREG?' call
\* returns OK, m_verify_network returns Error::OK at the first query whose
\* reply reports HomeNetwork or Roaming, and between consecutive queries
\* there is exactly one 500 ms delay: after Searching, Searching, HomeNetwork
\* it has returned OK with three queries and two delays.
C14_OkAtFirstRegistered ==
    /\ bobs.queries >= 1 => bobs.delays = bobs.queries - 1
    /\ bobs.firstReg # 0 => (bobs.lastVerify = "OK" /\ bobs.queries = bobs.firstReg)
    /\ bobs.lastVerify = "OK" => bobs.firstReg = bobs.queries
    /\ ( /\ bobs.lastVerify # "none" /\ bobs.queries = 3 /\ bobs.onlySearching
         /\ bobs.stat = <<RegistrationStatus.HOME_NETWORK>> )
       => (bobs.lastVerify = "OK" /\ bobs.delays = 2)

\* C14 witness: the verification has returned OK on the third query, the
\* modem having reported Searching, Searching, HomeNetwork
C14_Witness ==
    /\ bobs.lastVerify = "OK" /\ bobs.queries = 3 /\ bobs.delays = 2
    /\ bobs.onlySearching
    /\ bobs.stat = <<RegistrationStatus.HOME_NETWORK>>

\* C15: a verification whose '+CREG?' calls all return OK on replies that
\* report neither HomeNetwork nor Roaming stops after exactly
\* LTE_SHIELD_REGISTER_TIMEOUT / 500 = 60 queries and returns
\* Error::LTE_REGISTRATION_FAILED; no verification sends a 61st query, and
\* every other status (Disabled, Searching, Denied, NoSignal, HomeSmsOnly,
\* RoamingSmsOnly) keeps the poll going until then.
C15_SixtyPollsThenFailed ==
    /\ [](bobs.queries <= LTE_SHIELD_REGISTER_TIMEOUT \div 500)
    /\ [](bobs.lastVerify = "LTE_REGISTRATION_FAILED"
            => /\ bobs.queries = LTE_SHIELD_REGISTER_TIMEOUT \div 500
               /\ bobs.firstReg = 0
               /\ bobs.stat \in { <<RegistrationStatus[f]>> :
                                    f \in DOMAIN RegistrationStatus
                                          \ {"HOME_NETWORK", "ROAMING"} })
    /\ [][ ( /\ bobs.queries >= 1
             /\ bobs.lastVerify = "none" /\ bobs'.lastVerify # "none"
             /\ err = "OK"
             /\ obs.said \notin { <<RegistrationStatus.HOME_NETWORK>>,
                                  <<RegistrationStatus.ROAMING>> } )
           => /\ bobs'.lastVerify = "LTE_REGISTRATION_FAILED"
              /\ bobs.queries = LTE_SHIELD_REGISTER_TIMEOUT \div 500 ]_vars

\* C15 witness: the verification has failed on its 60th query, the modem
\* having reported RoamingSmsOnly
C15_Witness ==
    /\ bobs.lastVerify = "LTE_REGISTRATION_FAILED"
    /\ bobs.queries = 60
    /\ bobs.stat = <<RegistrationStatus.ROAMING_SMS_ONLY>>

-----------------------------------------------------------------------------
\* C16: within one begin() call m_configure_network runs at most once and
\* m_verify_network at most twice; the reconfiguration is entered only after
\* the first verification returned LTE_BAD_CONFIG, and after a second
\* verification that returned anything but OK begin() returns false with no
\* further reconfiguration or verification.
C16_OneReconfiguration ==
    /\ bobs.confnets <= 1
    /\ bobs.verifies <= 2
    /\ bobs.confnets = 1 => bobs.firstVerify = "LTE_BAD_CONFIG"
    /\ bobs.verifies = 2 => bobs.confnets = 1
    /\ (bobs.verifies = 2 /\ bobs.lastVerify \notin {"none", "OK"})
       => \/ began = "false"
          \/ began = "none" /\ Running("begin", "verified2")

\* C16 witness: begin() has returned false after a second verification that
\* returned LTE_BAD_CONFIG again
C16_Witness ==
    /\ began = "false"
    /\ bobs.verifies = 2 /\ bobs.confnets = 1
    /\ bobs.firstVerify = "LTE_BAD_CONFIG" /\ bobs.lastVerify = "LTE_BAD_CONFIG"

-----------------------------------------------------------------------------
(* m_configure.  bobs.conf observes the latest activation until it returns   *)
(* OK: its 'E0' calls (e0s), its power toggles (toggles), the setup commands *)
(* it has sent (setup), how many of them returned OK (oks), whether it has   *)
(* called m_reset (reset), and the error it returned from its own commands   *)
(* (ret).  An activation that passes up the error of its m_reset leaves the  *)
(* record as it is.                                                          *)

\* C17: m_configure sends 'E0' at most 4 times, once and then once after each
\* of at most 3 power toggles; if none of these calls returns OK it returns
\* Error::LTE_NOT_FOUND with no setup command and no reset sent, and from
\* then on begin() only returns, to end with false.
C17_NotFoundAfterFourProbes ==
    /\ [](/\ bobs.conf.e0s <= 4
          /\ bobs.conf.toggles <= 3
          /\ bobs.conf.e0s >= 1 => bobs.conf.toggles = bobs.conf.e0s - 1)
    /\ [](bobs.conf.ret = "LTE_NOT_FOUND"
            => /\ bobs.conf.e0s = 4
               /\ bobs.conf.setup = <<>> /\ ~bobs.conf.reset
               /\ began \in {"none", "false"}
               /\ stack = <<>> => began = "false")
    /\ [][ ( /\ Running("m_configure", "e0") /\ Sent /\ err # "OK"
             /\ bobs.conf.e0s = 4 )
           => bobs'.conf.ret = "LTE_NOT_FOUND" ]_vars
    /\ [][ bobs.conf.ret = "LTE_NOT_FOUND"
           => /\ Len(stack') < Len(stack)
              /\ pc' = "idle" /\ wire' = wire /\ power_pin' = power_pin ]_vars

\* C17 witness: begin() has returned false after four unanswered 'E0' calls
\* and three power toggles of m_configure
C17_Witness ==
    /\ began = "false"
    /\ bobs.conf.ret = "LTE_NOT_FOUND"
    /\ bobs.conf.e0s = 4 /\ bobs.conf.toggles = 3

\* C18: after a successful 'E0', m_configure sends '+UGPIOC=16,2',
\* '+UGPIOC=23,3', '+UGPIOC=24,10', '+CMGF=1', '+CTZU=1' in that order, each
\* only after the one before returned OK; the first result that is not OK is
\* returned as it is, with no later setup command and no reset, and the reset
\* is called only after all five returned OK.
C18_SetupInOrder ==
    /\ [](LET five ==
                << <<"+", "U", "G", "P", "I", "O", "C", "=", "1", "6", ",", "2">>,
                   <<"+", "U", "G", "P", "I", "O", "C", "=", "2", "3", ",", "3">>,
                   <<"+", "U", "G", "P", "I", "O", "C", "=", "2", "4", ",", "1", "0">>,
                   <<"+", "C", "M", "G", "F", "=", "1">>,
                   <<"+", "C", "T", "Z", "U", "=", "1">> >>
              c == bobs.conf
          IN  /\ Len(c.setup) <= 5
              /\ c.setup = SubSeq(five, 1, Len(c.setup))
              /\ c.oks <= Len(c.setup)
              /\ c.setup # <<>> => c.oks >= Len(c.setup) - 1
              /\ c.reset => (c.setup = five /\ c.oks = 5))
    /\ [][ Len(bobs'.conf.setup) > Len(bobs.conf.setup)
           => /\ err = "OK"
              /\ Len(bobs'.conf.setup) = Len(bobs.conf.setup) + 1 ]_vars
    /\ [][ ( /\ bobs.conf.setup # <<>> /\ ~bobs.conf.reset
             /\ bobs.conf.ret = "none" /\ Sent /\ err # "OK" )
           => /\ bobs'.conf.ret = err /\ ret' = err
              /\ bobs'.conf.setup = bobs.conf.setup /\ ~bobs'.conf.reset ]_vars
    /\ [][ bobs.conf.ret # "none"
           => (Len(stack') < Len(stack) /\ pc' = "idle" /\ wire' = wire) ]_vars

\* C18 witness: m_configure has called m_reset, all five setup commands
\* having been sent and having returned OK
C18_Witness ==
    /\ bobs.conf.reset
    /\ Len(bobs.conf.setup) = 5 /\ bobs.conf.oks = 5
    /\ bobs.conf.setup[5] = <<"+", "C", "T", "Z", "U", "=", "1">>

-----------------------------------------------------------------------------
\* C19: m_response_to_error maps OK to UNEXPECTED_OK, DATA to
\* UNEXPECTED_DATA, ERROR to LTE_ERROR, TIMEOUT to TIMEOUT and UNKNOWN to
\* UNEXPECTED_DATA, so never yields Error::OK; and a call that ends on a
\* classification of another kind than the expected one returns an error of
\* this set: an OK line in time where a data reply was expected gives
\* UNEXPECTED_OK.
C19_ResponseToError ==
    /\ m_response_to_error(ResponseType.OK) = "UNEXPECTED_OK"
    /\ m_response_to_error(ResponseType.DATA) = "UNEXPECTED_DATA"
    /\ m_response_to_error(ResponseType.ERROR) = "LTE_ERROR"
    /\ m_response_to_error(ResponseType.TIMEOUT) = "TIMEOUT"
    /\ m_response_to_error(ResponseType.UNKNOWN) = "UNEXPECTED_DATA"
    /\ \A f \in DOMAIN ResponseType : m_response_to_error(ResponseType[f]) # "OK"
    /\ (pc = "done" /\ obs.lastEnd = "data_check")
       => err \in {"UNEXPECTED_OK", "LTE_ERROR", "TIMEOUT", "UNEXPECTED_DATA"}
    /\ (pc = "done" /\ obs.lastEnd = "final_check")
       => err \in {"UNEXPECTED_DATA", "LTE_ERROR", "TIMEOUT"}
    /\ ( /\ AttemptOver /\ WantsResponse(sc)
         /\ EchoInTime(obs.view)
         /\ OkLineInTime(obs.view, EchoEnd(obs.view) + 1) )
       => (pc = "done" /\ err = "UNEXPECTED_OK" /\ obs.lastEnd = "data_check")

\* C19 witness: a query has returned UNEXPECTED_OK on an OK line that came
\* in time where its data reply was expected
C19_Witness ==
    /\ pc = "done" /\ WantsResponse(sc)
    /\ obs.lastEnd = "data_check" /\ err = "UNEXPECTED_OK"
    /\ EchoInTime(obs.view)
    /\ OkLineInTime(obs.view, EchoEnd(obs.view) + 1)

-----------------------------------------------------------------------------
(* Until the shield is online (line 67) bobs.entry is the level begin() read *)
(* from the power indicator at entry and bobs.pulsed says begin() has called *)
(* m_power_toggle.                                                           *)

\* C20: when begin() reads the power indicator as not HIGH at entry, it
\* pulses the power pin and waits for the indicator before it reports any
\* outcome: it never returns, before the shield is online, without having
\* attempted the toggle.
C20_ToggleBeforeOutcome ==
    (began # "none" /\ bobs.entry = "LOW") => bobs.pulsed

-----------------------------------------------------------------------------
\* C21: for every configured MNOType, the multi-digit codes included, a
\* verification whose '+UMNOPROF?' call returned OK on a reply giving exactly
\* the configured profile number does not return LTE_BAD_CONFIG (and returns
\* OK once a '+CREG?' reply reports HomeNetwork or Roaming).
C21_ConfiguredProfileAccepted ==
    bobs.profile = Itoa(m_net_config.mno) => bobs.lastVerify # "LTE_BAD_CONFIG"

\* C22: when the number m_verify_network parses from the '+UMNOPROF?' reply
\* is 0 or differs from the configured mno, it returns LTE_BAD_CONFIG without
\* a '+CREG?' query; an error of the profile query is returned unchanged,
\* also without a '+CREG?' query.
C22_BadProfileNoPoll ==
    /\ [](bobs.lastVerify = "LTE_BAD_CONFIG" => bobs.queries = 0)
    /\ [][ ( /\ Running("m_verify_network", "profile") /\ Sent
             /\ stack' # stack
             /\ \/ err # "OK"
                \/ Atoi(response) = 0
                \/ Atoi(response) # m_net_config.mno )
           => /\ bobs'.lastVerify = IF err # "OK" THEN err ELSE "LTE_BAD_CONFIG"
              /\ ret' = bobs'.lastVerify
              /\ Len(stack') < Len(stack)
              /\ bobs'.queries = 0 /\ pc' = "idle" /\ wire' = wire ]_vars

\* C22 witness: the verification has returned LTE_BAD_CONFIG on a reply that
\* gave profile 0, no '+CREG?' query having been made
C22_Witness ==
    /\ bobs.lastVerify = "LTE_BAD_CONFIG" /\ ret = "LTE_BAD_CONFIG"
    /\ bobs.profile = <<"0">>
    /\ bobs.queries = 0
    /\ Running("begin", "verified1")

-----------------------------------------------------------------------------
\* C23: every byte an m_send_command call reads was sent by the modem in
\* reply to a transmission of that same call, whatever the latencies: a reply
\* that arrives after its call has returned is not read by the next call.
C23_OwnRepliesOnly == ~obs.stale

-----------------------------------------------------------------------------
\* C24: the result of m_check_response is fixed by the first byte read that
\* is not CR, LF or space: '+' gives DATA and the stream is left right after
\* it, 'O' gives OK once the line has been read up to and including its LF,
\* 'E' gives ERROR, any other byte gives UNKNOWN; TIMEOUT is the result
\* exactly when the reader timed out before such a byte or before the LF of
\* an 'O' line. The result is observed through what m_send_command does with
\* it (lines 305-308 and 360-365).
C24_ClassifiedByFirstByte ==
    [][ LET r == ReadSerial(rx, el, timeout_calc)
            want == IF r.to THEN ResponseType.TIMEOUT
                    ELSE IF pc = "checkO" THEN ResponseType.OK
                    ELSE IF r.c = "+" THEN ResponseType.DATA
                    ELSE IF r.c = "E" THEN ResponseType.ERROR
                    ELSE ResponseType.UNKNOWN
        IN  /\ (pc = "check" /\ pc' = "checkO") => (~r.to /\ r.c = "O")
            /\ (pc \in {"check", "checkO"} /\ pc' \notin {"check", "checkO"})
               => /\ (pc = "checkO" /\ ~r.to) => (r.c = LF /\ rx' = r.rx)
                  /\ IF sc.phase = "data" /\ want = ResponseType.DATA
                     THEN pc' = "name" /\ rx' = r.rx
                     ELSE IF sc.phase # "data" /\ want = ResponseType.OK
                     THEN pc' = "done" /\ err' = "OK"
                     ELSE pc' = "done" /\ err' = m_response_to_error(want)
      ]_vars

-----------------------------------------------------------------------------
\* C25: when a reply buffer was requested and the first classification after
\* the echo line is not DATA, m_send_command returns at once the translated
\* error (UNEXPECTED_OK for an OK line, LTE_ERROR for ERROR, TIMEOUT for a
\* timeout, UNEXPECTED_DATA for anything else): it transmits nothing more
\* and the caller's buffer is as it was handed in.
C25_NoDataReturnsAtOnce ==
    /\ [](obs.lastEnd = "data_check"
          => /\ pc = "done" /\ WantsResponse(sc)
             /\ err \in {"UNEXPECTED_OK", "LTE_ERROR", "TIMEOUT", "UNEXPECTED_DATA"}
             /\ obs.writes = sc.try_num + 1
             /\ \A k \in DOMAIN response : response[k] = NUL)
    /\ [][ ( /\ pc \in {"check", "checkO"} /\ sc.phase = "data"
             /\ pc' \notin {"check", "checkO", "name"} )
           => LET r == ReadSerial(rx, el, timeout_calc) IN
              /\ pc' = "done" /\ obs'.lastEnd = "data_check"
              /\ err' = IF r.to THEN "TIMEOUT"
                        ELSE IF pc = "checkO" THEN "UNEXPECTED_OK"
                        ELSE IF r.c = "E" THEN "LTE_ERROR"
                        ELSE "UNEXPECTED_DATA"
              /\ obs'.writes = obs.writes /\ wire' = wire
              /\ response' = response /\ sc' = sc ]_vars

\* C25 witness: a call with a reply buffer has returned UNEXPECTED_OK from
\* the first classification of its second transmission, the buffer untouched
C25_Witness ==
    /\ pc = "done" /\ obs.lastEnd = "data_check" /\ err = "UNEXPECTED_OK"
    /\ WantsResponse(sc) /\ sc.tries = 2 /\ obs.writes = 2
    /\ \A k \in DOMAIN response : response[k] = NUL

-----------------------------------------------------------------------------
\* C26: m_configure_network issues its steps in the order '+CFUN=0',
\* '+UMNOPROF=<configured mno>', reset, then the profile re-query and the PDP
\* command where they apply, a second reset, and last '+COPS=0'. A step is
\* issued only when every step before it has returned OK, the first result
\* that is not OK is what the call returns, and '+COPS=0' is never sent after
\* a step that failed.
C26_NetworkStepsInOrder ==
    LET n == Len(bobs.cn)
        whats == [k \in 1..n |-> bobs.cn[k].what]
        kind(w) == IF Len(w) >= 9 /\ SubSeq(w, 1, 9) = <<"+", "C", "G", "D", "C", "O", "N", "T", "=">>
                   THEN <<"pdp">> ELSE w
        head == << <<"+", "C", "F", "U", "N", "=", "0">>,
                   <<"+", "U", "M", "N", "O", "P", "R", "O", "F", "=">>
                       \o Itoa(m_net_config.mno),
                   <<"m_reset">> >>
        tail == << <<"m_reset">>, <<"+", "C", "O", "P", "S", "=", "0">> >>
        orders == { head \o a \o b \o tail :
                      a \in { <<>>, << <<"+", "U", "M", "N", "O", "P", "R", "O", "F", "?">> >> },
                      b \in { <<>>, << <<"pdp">> >> } }
        inside == \E k \in DOMAIN stack : stack[k].fn = "m_configure_network"
    IN  n > 0 =>
          /\ \E full \in orders :
                /\ n <= Len(full)
                /\ \A k \in 1..n : kind(whats[k]) = full[k]
          /\ \A k \in 1..(n - 1) : bobs.cn[k].res = "OK"
          /\ inside => bobs.cn[n].res = "pending"
          /\ ~inside =>
                /\ bobs.cn[n].res # "pending"
                /\ bobs.cn[n].res # "OK" => ret = bobs.cn[n].res
                /\ bobs.cn[n].res = "OK" =>
                      \/ whats[n] = tail[2] /\ ret = "OK"
                      \/ whats[n] = <<"+", "U", "M", "N", "O", "P", "R", "O", "F", "?">>
                         /\ ret = "LTE_AUTO_MNO_FAILED"

\* C26 witness: with the Hologram configuration the call has returned OK
\* after its six steps, '+COPS=0' the last
C26_Witness ==
    /\ Len(bobs.cn) = 6 /\ bobs.cn[6].what = CMD_COPS0 /\ bobs.cn[6].res = "OK"
    /\ bobs.cn[5].what = <<"m_reset">>
    /\ ret = "OK" /\ Running("begin", "configured")
    /\ m_net_config = CONFIG_HOLOGRAM

-----------------------------------------------------------------------------
\* C27: m_configure_network sends the '+UMNOPROF?' re-query exactly when the
\* configured mno is AUTO; when the number parsed from its reply is <= 0 the
\* call returns LTE_AUTO_MNO_FAILED, and no PDP command, second reset or
\* '+COPS=0' follows.
C27_RequeryOnlyForAuto ==
    /\ [](LET n == Len(bobs.cn)
              inside == \E k \in DOMAIN stack : stack[k].fn = "m_configure_network"
          IN  /\ \A k \in 1..n :
                   bobs.cn[k].what = CMD_UMNOPROF_Q
                   => (k = 4 /\ m_net_config.mno = MNO_AUTO)
              /\ (n >= 4 /\ m_net_config.mno = MNO_AUTO)
                   => bobs.cn[4].what = CMD_UMNOPROF_Q
              /\ (n > 0 /\ ~inside /\ ret = "LTE_AUTO_MNO_FAILED")
                   => (n = 4 /\ bobs.cn[4] = [what |-> CMD_UMNOPROF_Q, res |-> "OK"]))
    /\ [][ ( /\ Running("m_configure_network", "auto") /\ Sent
             /\ stack' # stack
             /\ err = "OK" /\ Atoi(response) <= 0 )
           => /\ Len(stack') < Len(stack) /\ ret' = "LTE_AUTO_MNO_FAILED"
              /\ pc' = "idle" /\ wire' = wire
              /\ Len(bobs'.cn) = 4 ]_vars

\* C27 witness: with mno AUTO the modem has reported profile 0 to the
\* re-query and the call has returned LTE_AUTO_MNO_FAILED after four steps
C27_Witness ==
    /\ m_net_config.mno = MNO_AUTO
    /\ Len(bobs.cn) = 4 /\ bobs.cn[4] = [what |-> CMD_UMNOPROF_Q, res |-> "OK"]
    /\ obs.said = <<"0">>
    /\ ret = "LTE_AUTO_MNO_FAILED" /\ Running("begin", "configured")

-----------------------------------------------------------------------------
\* C28: m_configure_network sends the PDP context command
\* '+CGDCONT=1,"<pdp>","<apn>"' exactly when the configured pdp is not NONE
\* and the configured apn is not null (every earlier step having returned
\* OK); otherwise the step after the first reset, or after the re-query, is
\* the second reset.
C28_PdpOnlyWhenConfigured ==
    LET n == Len(bobs.cn)
        wanted == m_net_config.pdp # PDPType.NONE /\ m_net_config.apn # NULLPTR
        text == <<"+", "C", "G", "D", "C", "O", "N", "T", "=", "1", ",", "\"">>
                \o m_get_pdp_str(m_net_config.pdp) \o <<"\"", ",", "\"">>
                \o m_net_config.apn \o <<"\"">>
        \* the place of the step that follows the first reset and the re-query
        at == IF m_net_config.mno = MNO_AUTO THEN 5 ELSE 4
    IN  /\ \A k \in 1..n :
             (Len(bobs.cn[k].what) >= 8
              /\ SubSeq(bobs.cn[k].what, 1, 8) = <<"+", "C", "G", "D", "C", "O", "N", "T">>)
             => (wanted /\ k = at /\ bobs.cn[k].what = text
                 /\ \A j \in 1..(k - 1) : bobs.cn[j].res = "OK")
        /\ n >= at => bobs.cn[at].what = IF wanted THEN text ELSE <<"m_reset">>

\* C28 witness: a configuration with a PDP type and a null apn has reached
\* the second reset as its fourth step, no PDP command sent
C28_Witness ==
    /\ m_net_config.pdp = PDPType.IPV4V6 /\ m_net_config.apn = NULLPTR
    /\ Len(bobs.cn) = 5 /\ bobs.cn[4] = [what |-> <<"m_reset">>, res |-> "OK"]
    /\ bobs.cn[5].what = CMD_COPS0

-----------------------------------------------------------------------------
\* C29: m_reset sends '+CFUN=15' first; it waits for the power indicator only
\* when that transaction returned OK and sends 'E0' only when the wait
\* returned OK; it returns OK only when the final 'E0' transaction returned
\* OK, and otherwise the error of the first step that failed.
C29_ResetStepsInOrder ==
    [][ (stack # <<>> /\ Top.fn = "m_reset" /\ stack' # stack)
        => LET returns(e) == /\ stack' = SubSeq(stack, 1, Len(stack) - 1)
                             /\ ret' = e /\ pc' = "idle" /\ wire' = wire
               sends(c, at) == /\ Len(stack') = Len(stack)
                               /\ stack'[Len(stack')].pc = at
                               /\ pc' = "try" /\ sc'.command = c /\ sc'.try_num = 0
                               /\ sc'.timeout = LTE_SHIELD_RESET_TIMEOUT
           IN  /\ Top.pc = "start" => sends(CMD_CFUN15, "cfun")
               /\ Top.pc = "cfun" =>
                     /\ Sent
                     /\ IF err = "OK"
                        THEN /\ Len(stack') = Len(stack) + 1
                             /\ stack'[Len(stack')].fn = "m_wait_power_on"
                             /\ stack'[Len(stack)].pc = "waited"
                             /\ wire' = wire /\ pc' = "idle"
                        ELSE returns(err)
               /\ Top.pc = "waited" =>
                     IF ret = "OK" THEN sends(CMD_E0, "e0") ELSE returns(ret)
               /\ Top.pc = "e0" => (Sent /\ returns(err))
               /\ (Len(stack') < Len(stack) /\ ret' = "OK")
                     => (Top.pc = "e0" /\ sc.command = CMD_E0 /\ err = "OK") ]_vars

\* C29 witness: the first reset of m_configure_network has returned OK, its
\* final 'E0' transaction having returned OK
C29_Witness ==
    /\ Running("m_configure_network", "reset1") /\ Idle
    /\ ret = "OK" /\ err = "OK" /\ sc.command = CMD_E0
    /\ sc.timeout = LTE_SHIELD_RESET_TIMEOUT

-----------------------------------------------------------------------------
\* C30: m_wait_power_on returns OK only if the power indicator was read HIGH
\* at some poll made during that call, the polls of the m_wait_power_on
\* calls nested in it through its timeout fallback included; a call within
\* which the indicator is never read HIGH never returns OK.
C30_OkOnlyAfterHigh ==
    [][ /\ ( /\ stack # <<>> /\ Top.fn = "m_wait_power_on"
             /\ Len(stack') = Len(stack) - 1 /\ ret' = "OK" )
           => \/ Top.pc = "start" /\ bobs'.pin = "HIGH"
              \/ Top.pc = "configured" /\ Top.n = 1
        /\ \A k \in DOMAIN stack' :
             ( /\ stack'[k].fn = "m_wait_power_on" /\ stack'[k].n = 1
               /\ k \in DOMAIN stack /\ stack[k].fn = "m_wait_power_on"
               /\ stack[k].n = 0 )
             => bobs'.pin = "HIGH"
        /\ \A k \in DOMAIN stack' :
             (k \notin DOMAIN stack \/ stack[k].fn # stack'[k].fn)
             => stack'[k].n = 0 ]_vars

\* C30 witness: a wait whose indicator stayed low past the timeout has
\* returned OK to m_reset after a nested wait read HIGH
C30_Witness ==
    /\ Running("m_reset", "waited") /\ Idle
    /\ ret = "OK" /\ bobs.pin = "none"
    /\ Len(stack) >= 4

-----------------------------------------------------------------------------
\* C31: in a call with a reply buffer and dest_max >= 1 every write to the
\* caller's buffer is at an index in 0..dest_max-1, whatever the length of
\* the reply and the times its bytes arrive; and once the copy loop is over
\* without a timeout the buffer holds a NUL within its first dest_max bytes,
\* right after the characters copied.
C31_WritesWithinBuffer ==
    /\ [][ /\ response' # response => pc \in {"idle", "done", "copy"}
           /\ (pc = "copy" /\ pc' # "done")
              => /\ sc.dest_max >= 1
                 /\ sc.i \in 0..(sc.dest_max - 1)
                 /\ sc.i \in DOMAIN response
                 /\ \A k \in DOMAIN response \ {sc.i} : response'[k] = response[k]
           /\ (pc = "copy" /\ pc' = "done") => response' = response ]_vars
    /\ []((WantsResponse(sc) /\ sc.phase = "final" /\ pc \in {"check", "checkO", "done"})
          => /\ sc.i \in 0..(sc.dest_max - 1)
             /\ response[sc.i] = NUL
             /\ \A k \in 0..(sc.i - 1) : response[k] # NUL)

\* C31 witness: a payload of two characters has been clipped into a buffer
\* of one byte, which holds the NUL alone
C31_Witness ==
    /\ pc = "done" /\ err = "OK" /\ sc.dest_max = 1 /\ sc.phase = "final"
    /\ Len(Payload(obs.view)) >= 2
    /\ response[0] = NUL

-----------------------------------------------------------------------------
\* C32: every call of m_send_command returns, given only that the clock
\* advances, whatever the modem sends (a stream whose bytes keep arriving
\* without a line end included): the call makes at most `tries`
\* transmissions, and a timed read gives a byte or the timeout value once the
\* clock is past start + timeout, so that no loop of the call goes on for
\* ever.
C32_CallReturns ==
    /\ [](obs.writes <= sc.tries)
    /\ ((pc = "try" /\ obs.writes = 0) ~> (pc = "done"))

====
